---- MODULE Spec2Model ----
(***************************************************************************)
(* Model of the simulation engine of my-factory-world: the engine's        *)
(* play/pause/reset state machine, the animation-frame scheduling, the     *)
(* per-frame tick (source timers, token advancement, transfer, removal),   *)
(* the device state operations and the event emission.                     *)
(*                                                                         *)
(* Numbers.  The code computes in floating point seconds; the model        *)
(* computes the same quantities exactly in integers:                       *)
(*   - wall-clock times (performance.now(), frame timestamps) in ms;       *)
(*   - the time scale in tenths (timeScale 1.0 is 10);                     *)
(*   - simulated time (elapsedTime, source timers) in units of             *)
(*     1/TimeUnit second, i.e. deltaMs * timeScaleTenths;                  *)
(*   - progress as a numerator over ProgressDen.                           *)
(***************************************************************************)
EXTENDS Integers, Sequences, FiniteSets, TLC

\* ------------------------------------------------------------------ bounds
\* The wall clock of the model stops at MaxNow ms.
MaxNow == 1000
\* The clock advances in steps of FrameQuantum ms.
FrameQuantum == 250
\* play() is not called once this many frame callbacks are in flight.
MaxPending == 2
\* At most this many listeners are registered besides the host's listener.
MaxListeners == 2
\* Connections of a layout given to the graph utilities.
MaxConnections == 3
\* maxHistoryDepth of the editor store is set to 1..MaxHistoryDepth.
MaxHistoryDepth == 2
\* addDevice is not called on a store with this many devices.
MaxStoreDevices == 2
\* At most this many calls are made on the editor store.
MaxStoreCalls == 5

\* --------------------------------------------------------------- constants
MsPerSecond == 1000
ScaleDen == 10
TimeUnit == MsPerSecond * ScaleDen
MinTimeScale == 1
MaxTimeScale == 100
DefaultTimeScale == 10
DefaultSpeed == 100

NoFrame == 0
Undefined == "undefined"

\* ------------------------------------------------------------------ layout
\* The layout of the engine tests: source-1 -> conveyor-1 -> sink-1.
LayoutDevices ==
  << [id |-> "source-1", type |-> "source", x |-> 0, y |-> 100,
      width |-> 50, height |-> 50, state |-> "running",
      generationRate |-> 2, speed |-> 0, direction |-> "none"],
     [id |-> "conveyor-1", type |-> "conveyor", x |-> 60, y |-> 100,
      width |-> 200, height |-> 50, state |-> "running",
      generationRate |-> 0, speed |-> 100, direction |-> "right"],
     [id |-> "sink-1", type |-> "sink", x |-> 270, y |-> 100,
      width |-> 50, height |-> 50, state |-> "running",
      generationRate |-> 0, speed |-> 0, direction |-> "none"] >>

LayoutConnections ==
  << [fromDeviceId |-> "source-1", toDeviceId |-> "conveyor-1"],
     [fromDeviceId |-> "conveyor-1", toDeviceId |-> "sink-1"] >>

\* The layout of the layout-update test: one conveyor, no connection.
NewLayoutDevices ==
  << [id |-> "new-conveyor", type |-> "conveyor", x |-> 0, y |-> 0,
      width |-> 100, height |-> 50, state |-> "running",
      generationRate |-> 0, speed |-> 50, direction |-> "right"] >>

NewLayoutConnections == << >>

\* A layout with a fork and with a sink that has an outgoing connection:
\* source-1 -> sink-1 (declared first), source-1 -> conveyor-2 (declared
\* second), sink-1 -> conveyor-2.  The first connection is declared twice.
ForkDevices ==
  << [id |-> "source-1", type |-> "source", x |-> 0, y |-> 100,
      width |-> 50, height |-> 50, state |-> "running",
      generationRate |-> 2, speed |-> 0, direction |-> "none"],
     [id |-> "sink-1", type |-> "sink", x |-> 60, y |-> 40,
      width |-> 50, height |-> 50, state |-> "running",
      generationRate |-> 0, speed |-> 0, direction |-> "none"],
     [id |-> "conveyor-2", type |-> "conveyor", x |-> 60, y |-> 100,
      width |-> 50, height |-> 200, state |-> "running",
      generationRate |-> 0, speed |-> 100, direction |-> "down"] >>

ForkConnections ==
  << [fromDeviceId |-> "source-1", toDeviceId |-> "sink-1"],
     [fromDeviceId |-> "source-1", toDeviceId |-> "sink-1"],
     [fromDeviceId |-> "source-1", toDeviceId |-> "conveyor-2"],
     [fromDeviceId |-> "sink-1", toDeviceId |-> "conveyor-2"] >>

\* A layout without connections: the source and the conveyor of the test
\* layout, each on its own.
LooseDevices == << LayoutDevices[1], LayoutDevices[2] >>

LooseConnections == << >>

\* The EditorLayout values handed to the constructor and to updateLayout.
Layouts ==
  [test |-> [devices |-> LayoutDevices, connections |-> LayoutConnections],
   new |-> [devices |-> NewLayoutDevices, connections |-> NewLayoutConnections],
   fork |-> [devices |-> ForkDevices, connections |-> ForkConnections],
   loose |-> [devices |-> LooseDevices, connections |-> LooseConnections]]

LayoutNames == DOMAIN Layouts

\* The layout the engine tests construct the engine with.
TestLayout == "test"

\* layout.devices, and the ids in it.
DevicesOf(layout) == Layouts[layout].devices

IdsOf(layout) ==
  { DevicesOf(layout)[i].id : i \in 1..Len(DevicesOf(layout)) }

DeviceIds == IdsOf(TestLayout)

\* The device object with this id in the layout.
DeviceOf(layout, id) ==
  DevicesOf(layout)[CHOOSE i \in 1..Len(DevicesOf(layout)) :
                      DevicesOf(layout)[i].id = id]

SourcesOf(layout) ==
  { id \in IdsOf(layout) : DeviceOf(layout, id).type = "source" }

SourceIds == UNION { SourcesOf(layout) : layout \in LayoutNames }

\* state and faultReason of the device objects of a layout as handed over.
DeviceObjects(layout) ==
  [id \in IdsOf(layout) |->
     [state |-> DeviceOf(layout, id).state, faultReason |-> Undefined]]

\* An id that no device of the layout has.
UnknownId == "no-such-device"

\* ------------------------------------------------------------------- graph
Includes(seq, x) == \E i \in 1..Len(seq) : seq[i] = x

RECURSIVE BuildNodes(_, _, _)
\* The connection loop without the includes() tests.
BuildNodesWithDuplicates(conns, i, nodes) ==
  IF i > Len(conns) THEN nodes
  ELSE LET c == conns[i]
           from == c.fromDeviceId
           to == c.toDeviceId
       IN IF from \in DOMAIN nodes /\ to \in DOMAIN nodes
          THEN BuildNodes(conns, i + 1,
                          [nodes EXCEPT ![from].outputs = Append(@, to),
                                        ![to].inputs = Append(@, from)])
          ELSE BuildNodes(conns, i + 1, nodes)

BuildNodes(conns, i, nodes) ==
  IF i > Len(conns) THEN nodes
  ELSE LET c == conns[i]
           from == c.fromDeviceId
           to == c.toDeviceId
       IN IF from \in DOMAIN nodes /\ to \in DOMAIN nodes
          THEN LET n1 == IF Includes(nodes[from].outputs, to) THEN nodes
                         ELSE [nodes EXCEPT ![from].outputs = Append(@, to)]
                   n2 == IF Includes(n1[to].inputs, from) THEN n1
                         ELSE [n1 EXCEPT ![to].inputs = Append(@, from)]
               IN BuildNodes(conns, i + 1, n2)
          ELSE BuildNodes(conns, i + 1, nodes)

\* The keys of the Map that nodes.set(device.id, ...) fills, in the order
\* of their first insertion.
RECURSIVE MapKeys(_, _, _)
MapKeys(devs, i, keys) ==
  IF i > Len(devs) THEN keys
  ELSE MapKeys(devs, i + 1,
               IF Includes(keys, devs[i].id) THEN keys
               ELSE Append(keys, devs[i].id))

\* The graph of a layout l: its nodes by device id, each with its inputs
\* and outputs, and the iteration order of graph.nodes.
buildConnectivityGraph(l) ==
  [nodes |-> BuildNodes(l.connections, 1,
                        [id \in { l.devices[i].id : i \in 1..Len(l.devices) }
                           |-> [inputs |-> <<>>, outputs |-> <<>>]]),
   order |-> MapKeys(l.devices, 1, <<>>)]

\* A value that may be a list, a node, null or undefined, with its kind.
Value(kind, v) == [kind |-> kind, value |-> v]

getNode(graph, id) ==
  IF id \in DOMAIN graph.nodes THEN Value("node", graph.nodes[id])
  ELSE Value("undefined", <<>>)

\* graph.getConnectedOutputs(id) and graph.getConnectedInputs(id)
GraphOutputs(graph, id) ==
  IF id \in DOMAIN graph.nodes THEN graph.nodes[id].outputs ELSE <<>>

GraphInputs(graph, id) ==
  IF id \in DOMAIN graph.nodes THEN graph.nodes[id].inputs ELSE <<>>

\* this.graph: set by the constructor and by updateLayout, each time to
\* buildConnectivityGraph(this.layout).
Graph(layout) == buildConnectivityGraph(Layouts[layout])

HasNode(layout, id) == id \in DOMAIN Graph(layout).nodes

getConnectedOutputs(layout, id) == GraphOutputs(Graph(layout), id)

\* -------------------------------------------------------- graph algorithms
\* Map.set and Map.get(k) ?? default
MapSet(m, k, v) == [x \in (DOMAIN m) \cup {k} |-> IF x = k THEN v ELSE m[x]]

MapGet(m, k, default) == IF k \in DOMAIN m THEN m[k] ELSE default

\* findPath: the loop over currentNode.outputs and the loop over the queue
\* of { nodeId, path } entries.
RECURSIVE PathLoop(_, _, _, _), PathOutputs(_, _, _, _, _, _, _)
PathOutputs(graph, toDeviceId, current, outputs, i, queue, visited) ==
  IF i > Len(outputs) THEN PathLoop(graph, toDeviceId, queue, visited)
  ELSE IF outputs[i] = toDeviceId
  THEN Value("list", Append(current.path, toDeviceId))
  ELSE IF outputs[i] \notin visited
  THEN PathOutputs(graph, toDeviceId, current, outputs, i + 1,
                   Append(queue, [nodeId |-> outputs[i],
                                  path |-> Append(current.path, outputs[i])]),
                   visited \cup {outputs[i]})
  ELSE PathOutputs(graph, toDeviceId, current, outputs, i + 1, queue, visited)

PathLoop(graph, toDeviceId, queue, visited) ==
  IF queue = <<>> THEN Value("null", <<>>)
  ELSE IF Head(queue).nodeId \notin DOMAIN graph.nodes
  THEN PathLoop(graph, toDeviceId, Tail(queue), visited)
  ELSE PathOutputs(graph, toDeviceId, Head(queue),
                   graph.nodes[Head(queue).nodeId].outputs, 1,
                   Tail(queue), visited)

\* findPath() that searches depth first: the entries are taken from a stack,
\* the outputs of a node are put on it in their order, and an entry is
\* compared with the target when it is taken.
RECURSIVE PathStack(_, _, _, _)
PathStack(graph, toDeviceId, stack, visited) ==
  IF stack = <<>> THEN Value("null", <<>>)
  ELSE IF Head(stack).nodeId = toDeviceId
  THEN Value("list", Head(stack).path)
  ELSE IF Head(stack).nodeId \in visited
  THEN PathStack(graph, toDeviceId, Tail(stack), visited)
  ELSE PathStack(
         graph, toDeviceId,
         [i \in 1..Len(GraphOutputs(graph, Head(stack).nodeId)) |->
            [nodeId |-> GraphOutputs(graph, Head(stack).nodeId)[i],
             path |-> Append(Head(stack).path,
                             GraphOutputs(graph, Head(stack).nodeId)[i])]]
           \o Tail(stack),
         visited \cup {Head(stack).nodeId})

findPathDepthFirst(graph, fromDeviceId, toDeviceId) ==
  IF fromDeviceId = toDeviceId THEN Value("list", <<fromDeviceId>>)
  ELSE PathStack(graph, toDeviceId,
                 [i \in 1..Len(GraphOutputs(graph, fromDeviceId)) |->
                    [nodeId |-> GraphOutputs(graph, fromDeviceId)[i],
                     path |-> <<fromDeviceId,
                                GraphOutputs(graph, fromDeviceId)[i]>>]],
                 {fromDeviceId})

findPath(graph, fromDeviceId, toDeviceId) ==
  IF fromDeviceId = toDeviceId THEN Value("list", <<fromDeviceId>>)
  ELSE PathLoop(graph, toDeviceId,
                <<[nodeId |-> fromDeviceId, path |-> <<fromDeviceId>>]>>,
                {fromDeviceId})

\* hasCycle: dfs(nodeId) gives whether it found a cycle, with the sets
\* visited and recursionStack as it leaves them.
RECURSIVE Dfs(_, _, _, _), DfsOutputs(_, _, _, _, _, _), DfsNext(_, _, _, _, _)
\* The loop of dfs after the call dfs(outputId) has given r.
DfsNext(graph, nodeId, outputs, i, r) ==
  IF r.found THEN r
  ELSE DfsOutputs(graph, nodeId, outputs, i + 1, r.visited, r.recursionStack)

\* The loop of dfs without the recursion stack: an output that was visited
\* before counts as a cycle.
DfsOutputsByVisited(graph, nodeId, outputs, i, visited, recursionStack) ==
  IF i > Len(outputs)
  THEN [found |-> FALSE, visited |-> visited,
        recursionStack |-> recursionStack \ {nodeId}]
  ELSE IF outputs[i] \notin visited
  THEN DfsNext(graph, nodeId, outputs, i,
               Dfs(graph, outputs[i], visited, recursionStack))
  ELSE [found |-> TRUE, visited |-> visited,
        recursionStack |-> recursionStack]

DfsOutputs(graph, nodeId, outputs, i, visited, recursionStack) ==
  IF i > Len(outputs)
  THEN [found |-> FALSE, visited |-> visited,
        recursionStack |-> recursionStack \ {nodeId}]
  ELSE IF outputs[i] \notin visited
  THEN DfsNext(graph, nodeId, outputs, i,
               Dfs(graph, outputs[i], visited, recursionStack))
  ELSE IF outputs[i] \in recursionStack
  THEN [found |-> TRUE, visited |-> visited,
        recursionStack |-> recursionStack]
  ELSE DfsOutputs(graph, nodeId, outputs, i + 1, visited, recursionStack)

Dfs(graph, nodeId, visited, recursionStack) ==
  DfsOutputs(graph, nodeId, GraphOutputs(graph, nodeId), 1,
             visited \cup {nodeId}, recursionStack \cup {nodeId})

\* for (const [nodeId] of graph.nodes) if (!visited.has(nodeId)) ...
RECURSIVE CycleLoop(_, _, _), CycleNext(_, _, _)
CycleNext(graph, i, r) ==
  IF r.found THEN TRUE ELSE CycleLoop(graph, i + 1, r.visited)

CycleLoop(graph, i, visited) ==
  IF i > Len(graph.order) THEN FALSE
  ELSE IF graph.order[i] \notin visited
  THEN CycleNext(graph, i, Dfs(graph, graph.order[i], visited, {}))
  ELSE CycleLoop(graph, i + 1, visited)

hasCycle(graph) == CycleLoop(graph, 1, {})

\* topologicalSort: the loop over the outputs of the node taken from the
\* queue, on the record of inDegree, queue and result.
RECURSIVE SortOutputs(_, _, _), SortLoop(_, _)
SortOutputs(t, outputs, i) ==
  IF i > Len(outputs) THEN t
  ELSE LET outputId == outputs[i]
           newDegree == MapGet(t.inDegree, outputId, 0) - 1
       IN SortOutputs(
            [t EXCEPT !.inDegree = MapSet(@, outputId, newDegree),
                      !.queue = IF newDegree = 0 THEN Append(@, outputId)
                                ELSE @],
            outputs, i + 1)

\* The loop of topologicalSort putting each node at the front of result.
SortLoopReversed(graph, t) ==
  IF t.queue = <<>> THEN t
  ELSE SortLoop(graph,
                SortOutputs([t EXCEPT !.queue = Tail(@),
                                      !.result = <<Head(t.queue)>> \o @],
                            GraphOutputs(graph, Head(t.queue)), 1))

SortLoop(graph, t) ==
  IF t.queue = <<>> THEN t
  ELSE SortLoop(graph,
                SortOutputs([t EXCEPT !.queue = Tail(@),
                                      !.result = Append(@, Head(t.queue))],
                            GraphOutputs(graph, Head(t.queue)), 1))

\* The result of topologicalSort after its loop.
SortResult(graph, t) ==
  IF Len(t.result) # Len(graph.order) THEN Value("null", <<>>)
  ELSE Value("list", t.result)

topologicalSort(graph) ==
  SortResult(graph,
    SortLoop(graph,
      [inDegree |-> [id \in DOMAIN graph.nodes |->
                       Len(GraphInputs(graph, id))],
       queue |-> SelectSeq(graph.order,
                           LAMBDA id : Len(GraphInputs(graph, id)) = 0),
       result |-> <<>>]))

\* ---------------------------------------------------------------- geometry
\* Positions are in half pixels, so that the edge midpoints are whole.
getDeviceEntryPoint(d) ==
  IF d.type = "conveyor" /\ d.direction = "left"
  THEN [x |-> 2 * (d.x + d.width), y |-> 2 * d.y + d.height]
  ELSE IF d.type = "conveyor" /\ d.direction = "down"
  THEN [x |-> 2 * d.x + d.width, y |-> 2 * d.y]
  ELSE IF d.type = "conveyor" /\ d.direction = "up"
  THEN [x |-> 2 * d.x + d.width, y |-> 2 * (d.y + d.height)]
  ELSE [x |-> 2 * d.x, y |-> 2 * d.y + d.height]

getDeviceExitPoint(d) ==
  IF d.type = "conveyor" /\ d.direction = "left"
  THEN [x |-> 2 * d.x, y |-> 2 * d.y + d.height]
  ELSE IF d.type = "conveyor" /\ d.direction = "down"
  THEN [x |-> 2 * d.x + d.width, y |-> 2 * (d.y + d.height)]
  ELSE IF d.type = "conveyor" /\ d.direction = "up"
  THEN [x |-> 2 * d.x + d.width, y |-> 2 * d.y]
  ELSE [x |-> 2 * (d.x + d.width), y |-> 2 * d.y + d.height]

Abs(x) == IF x < 0 THEN -x ELSE x

\* The distance between two points that differ in one coordinate only, as
\* the entry and exit points of a device do.
calculateDistance(p1, p2) == Abs(p2.x - p1.x) + Abs(p2.y - p1.y)

\* Length of the device's path segment, in pixels.
SegmentLength(d) ==
  calculateDistance(getDeviceEntryPoint(d), getDeviceExitPoint(d)) \div 2

RECURSIVE Gcd(_, _)
Gcd(a, b) == IF b = 0 THEN a ELSE Gcd(b, a % b)

\* The devices of every layout.
AllDevices ==
  LayoutDevices \o NewLayoutDevices \o ForkDevices \o LooseDevices

Lcm(a, b) == IF a = 0 THEN b ELSE (a * b) \div Gcd(a, b)

RECURSIVE LcmOfLengths(_)
LcmOfLengths(i) ==
  IF i > Len(AllDevices) THEN 1
  ELSE Lcm(SegmentLength(AllDevices[i]), LcmOfLengths(i + 1))

\* Progress is a numerator over ProgressDen; LenLcm is the least common
\* multiple of the segment lengths of the layouts, so that every progress
\* delta is a whole number of 1/ProgressDen.
LenLcm == LcmOfLengths(1)
ProgressDen == LenLcm * TimeUnit

\* A token position is a pair of numerators over 2 * ProgressDen pixels.
PointAt(p) == [x |-> p.x * ProgressDen, y |-> p.y * ProgressDen]

getPositionOnSegment(d, progress) ==
  LET entry == getDeviceEntryPoint(d)
      exit == getDeviceExitPoint(d)
      clampedProgress == IF progress < 0 THEN 0
                         ELSE IF progress > ProgressDen THEN ProgressDen
                         ELSE progress
  IN [x |-> entry.x * ProgressDen + (exit.x - entry.x) * clampedProgress,
      y |-> entry.y * ProgressDen + (exit.y - entry.y) * clampedProgress]

\* getEffectiveSpeed() that does not look at the device state.
getEffectiveSpeedOfAnyState(d, state) ==
  IF d.type = "conveyor" THEN d.speed ELSE DefaultSpeed

getEffectiveSpeed(d, state) ==
  IF state # "running" THEN 0
  ELSE IF d.type = "conveyor" THEN d.speed
  ELSE DefaultSpeed

\* calculateProgressDelta() that leaves the time scale out.
calculateProgressDeltaUnscaled(d, state, deltaMs, timeScale) ==
  LET speed == getEffectiveSpeed(d, state)
      length == SegmentLength(d)
  IN IF speed = 0 \/ length = 0 THEN 0
     ELSE (speed * deltaMs * ScaleDen * LenLcm) \div length

calculateProgressDelta(d, state, deltaMs, timeScale) ==
  LET speed == getEffectiveSpeed(d, state)
      length == SegmentLength(d)
  IN IF speed = 0 \/ length = 0 THEN 0
     ELSE (speed * deltaMs * timeScale * LenLcm) \div length

\* ------------------------------------------------------------------ tokens
Null == "null"

DefaultTokenColor == "#3b82f6"

createToken(deviceId, device, color, counter) ==
  [id |-> counter + 1,
   position |-> PointAt(getDeviceEntryPoint(device)),
   currentDeviceId |-> deviceId,
   progress |-> 0,
   color |-> color]

\* advanceToken() that completes a token only once it is past the end.
advanceTokenPastEnd(token, d, state, deltaMs, timeScale) ==
  LET progressDelta == calculateProgressDelta(d, state, deltaMs, timeScale)
      newProgress == token.progress + progressDelta
      completed == newProgress > ProgressDen
      clampedProgress == IF newProgress < ProgressDen THEN newProgress
                         ELSE ProgressDen
      newPosition == getPositionOnSegment(d, clampedProgress)
  IN [token |-> [token EXCEPT !.progress = clampedProgress,
                              !.position = newPosition],
      completed |-> completed]

advanceToken(token, d, state, deltaMs, timeScale) ==
  LET progressDelta == calculateProgressDelta(d, state, deltaMs, timeScale)
      newProgress == token.progress + progressDelta
      completed == newProgress >= ProgressDen
      clampedProgress == IF newProgress < ProgressDen THEN newProgress
                         ELSE ProgressDen
      newPosition == getPositionOnSegment(d, clampedProgress)
  IN [token |-> [token EXCEPT !.progress = clampedProgress,
                              !.position = newPosition],
      completed |-> completed]

transferToken(token, nextDeviceId, nextDevice) ==
  [token EXCEPT !.currentDeviceId = nextDeviceId,
                !.progress = 0,
                !.position = PointAt(getDeviceEntryPoint(nextDevice))]

\* getNextDeviceId() that takes the last output.
getNextDeviceIdLast(token, layout) ==
  LET outputs == getConnectedOutputs(layout, token.currentDeviceId)
  IN IF Len(outputs) = 0 THEN Null ELSE outputs[Len(outputs)]

getNextDeviceId(token, layout) ==
  LET outputs == getConnectedOutputs(layout, token.currentDeviceId)
  IN IF Len(outputs) = 0 THEN Null ELSE outputs[1]

\* shouldRemoveToken() without the case of the sink.
shouldRemoveTokenUnlessOutputs(token, layout) ==
  IF ~HasNode(layout, token.currentDeviceId) THEN TRUE
  ELSE IF token.progress >= ProgressDen
          /\ Len(Graph(layout).nodes[token.currentDeviceId].outputs) = 0 THEN TRUE
  ELSE FALSE

shouldRemoveToken(token, layout) ==
  IF ~HasNode(layout, token.currentDeviceId) THEN TRUE
  ELSE IF token.progress >= ProgressDen
          /\ Len(Graph(layout).nodes[token.currentDeviceId].outputs) = 0 THEN TRUE
  ELSE IF DeviceOf(layout, token.currentDeviceId).type = "sink"
          /\ token.progress >= ProgressDen THEN TRUE
  ELSE FALSE

\* ------------------------------------------------------------------ events
Ev(type) == [type |-> type, prev |-> "-", new |-> "-", token |-> 0,
             dev |-> "-", to |-> "-", count |-> 0]

StatusChange(previousStatus, newStatus) ==
  [Ev("statusChange") EXCEPT !.prev = previousStatus, !.new = newStatus]

TokenCreated(token) ==
  [Ev("tokenCreated") EXCEPT !.token = token.id, !.dev = token.currentDeviceId]

TokenMoved(token, fromDevice, toDevice) ==
  [Ev("tokenMoved") EXCEPT !.token = token.id, !.dev = fromDevice,
                           !.to = toDevice]

TokenRemoved(token) ==
  [Ev("tokenRemoved") EXCEPT !.token = token.id, !.dev = token.currentDeviceId]

DeviceStateChange(deviceId, previousState, newState) ==
  [Ev("deviceStateChange") EXCEPT !.dev = deviceId, !.prev = previousState,
                                  !.new = newState]

TickEvent(tokenCount) == [Ev("tick") EXCEPT !.count = tokenCount]

\* Number of events of a type in a log.
RECURSIVE CountType(_, _)
CountType(log, type) ==
  IF log = <<>> THEN 0
  ELSE (IF Head(log).type = type THEN 1 ELSE 0) + CountType(Tail(log), type)

\* ------------------------------------------------------------ engine state
\* The operations below are functions of an engine record e: the engine's
\* fields, the host scheduler's set of frame callbacks in flight (pending),
\* the module-level tokenIdCounter, the events emitted by the operation in
\* progress (events) and the registered listener's reaction (hook).
\*
\* A registered listener is host code.  The one modelled here reacts to the
\* events of a tick: on the first event of type hook.on that a tick emits it
\* calls hook.call (pause or reset) on the engine, once.
\*
\* registry holds further listeners, in the order of their registration, each
\* registered for every event type: a listener of kind "records" returns, one
\* of kind "throws" throws.  received[i] is what listener i has been invoked
\* with during the operation in progress, errors counts the console.error
\* calls, and thrown says that an exception is propagating out of the
\* operation: the statements that would follow are then not executed.
NoHook == [on |-> "-", call |-> "none"]

EmptyTimers == [x \in {} |-> 0]

\* cancelAnimationFrame(this.animationFrameId); this.animationFrameId = null
cancelFrame(e) ==
  IF e.animationFrameId # NoFrame
  THEN [e EXCEPT !.pending = @ \ {e.animationFrameId},
                 !.animationFrameId = NoFrame]
  ELSE e

\* requestAnimationFrame returns a handle that no callback in flight has.
FreshHandle(pending) ==
  CHOOSE h \in 1..(Cardinality(pending) + 1) :
    h \notin pending /\ \A g \in 1..(h - 1) : g \in pending

\* An exception that propagates out of a listener ends the operation that
\* emitted: the field thrown records it, and the operators that stand for the
\* statements after an emit leave a record with thrown set as it is.
scheduleFrame(e) ==
  IF e.thrown THEN e
  ELSE LET h == FreshHandle(e.pending)
       IN [e EXCEPT !.animationFrameId = h, !.pending = @ \cup {h}]

initializeSourceTimers(e) ==
  [e EXCEPT !.sourceTimers = [id \in SourcesOf(e.layout) |-> 0]]

RECURSIVE InvokeListeners(_, _, _), InvokeListenersUncaught(_, _, _)

\* The listener loop without the try/catch around each call.
InvokeListenersUncaught(e, ev, i) ==
  IF i > Len(e.registry) THEN e
  ELSE LET e1 == [e EXCEPT !.received[i] = Append(@, ev)]
       IN IF e.registry[i] = "throws"
          THEN [e1 EXCEPT !.thrown = TRUE]
          ELSE InvokeListenersUncaught(e1, ev, i + 1)

\* for (const listener of eventListeners)
\*   try { listener(event) } catch (error) { console.error(...) }
InvokeListeners(e, ev, i) ==
  IF i > Len(e.registry) THEN e
  ELSE LET e1 == [e EXCEPT !.received[i] = Append(@, ev)]
       IN IF e.registry[i] = "throws"
          THEN InvokeListeners([e1 EXCEPT !.errors = @ + 1], ev, i + 1)
          ELSE InvokeListeners(e1, ev, i + 1)

RECURSIVE emit(_, _), pause(_), reset(_), EmitRemoved(_, _, _),
          HostListener(_, _)

\* The host's listener, invoked with the event after the listeners of the
\* registry.
HostListener(e, ev) ==
  IF e.thrown THEN e
  ELSE IF e.listeners /\ e.hook.on = ev.type
  THEN IF e.hook.call = "pause"
       THEN pause([e EXCEPT !.hook = NoHook, !.hookFired = "pause"])
       ELSE reset([e EXCEPT !.hook = NoHook, !.hookFired = e.hook.call])
  ELSE e

emit(e, ev) ==
  IF e.thrown THEN e
  ELSE HostListener(InvokeListeners([e EXCEPT !.events = Append(@, ev)],
                                    ev, 1),
                    ev)

\* pause() that leaves the frame callback requested.
pauseKeepingFrame(e) ==
  IF e.status # "running" THEN e
  ELSE LET previousStatus == e.status
           e1 == [e EXCEPT !.status = "paused"]
       IN emit(e1, StatusChange(previousStatus, e1.status))

\* pause() without its guard.
pauseUnguarded(e) ==
  LET previousStatus == e.status
      e1 == cancelFrame([e EXCEPT !.status = "paused"])
  IN emit(e1, StatusChange(previousStatus, e1.status))

pause(e) ==
  IF e.status # "running" THEN e
  ELSE LET previousStatus == e.status
           e1 == cancelFrame([e EXCEPT !.status = "paused"])
       IN emit(e1, StatusChange(previousStatus, e1.status))

\* for (const token of tokens) emit('tokenRemoved', { token })
EmitRemoved(e, toks, i) ==
  IF i > Len(toks) \/ e.thrown THEN e
  ELSE EmitRemoved(emit(e, TokenRemoved(toks[i])), toks, i + 1)

\* reset() reading previousStatus after it has set the status.
resetLatePrevious(e) ==
  LET e1 == cancelFrame([e EXCEPT !.status = "stopped"])
      previousStatus == e1.status
      e2 == EmitRemoved(e1, e1.tokens, 1)
      e3 == [e2 EXCEPT !.tokens = <<>>,
                       !.elapsedTime = 0,
                       !.lastFrameTime = 0,
                       !.sourceTimers = EmptyTimers,
                       !.tokenIdCounter = 0]
      e4 == [e3 EXCEPT !.devices =
               [id \in DOMAIN e3.devices |->
                  IF e3.devices[id].state = "faulted"
                  THEN [e3.devices[id] EXCEPT !.state = "stopped"]
                  ELSE e3.devices[id]]]
  IN emit(e4, StatusChange(previousStatus, e4.status))

\* reset() after its tokenRemoved events: the fields cleared, the faulted
\* devices stopped, the statusChange emitted.
ResetState(e, previousStatus) ==
  IF e.thrown THEN e
  ELSE emit([e EXCEPT !.tokens = <<>>,
                      !.elapsedTime = 0,
                      !.lastFrameTime = 0,
                      !.sourceTimers = EmptyTimers,
                      !.tokenIdCounter = 0,
                      !.devices =
                        [id \in DOMAIN e.devices |->
                           IF e.devices[id].state = "faulted"
                           THEN [e.devices[id] EXCEPT !.state = "stopped"]
                           ELSE e.devices[id]]],
            StatusChange(previousStatus, e.status))

reset(e) ==
  LET previousStatus == e.status
      e1 == cancelFrame([e EXCEPT !.status = "stopped"])
  IN ResetState(EmitRemoved(e1, e1.tokens, 1), previousStatus)

\* play() initializing the source timers on resume as well.
playAlwaysInitializes(e, clock) ==
  IF e.status = "running" THEN e
  ELSE LET previousStatus == e.status
           e1 == [e EXCEPT !.status = "running", !.lastFrameTime = clock]
           e2 == initializeSourceTimers(e1)
           e3 == emit(e2, StatusChange(previousStatus, e2.status))
       IN scheduleFrame(e3)

\* play() without its guard.
playUnguarded(e, clock) ==
  LET previousStatus == e.status
      e1 == [e EXCEPT !.status = "running", !.lastFrameTime = clock]
      e2 == IF previousStatus = "stopped"
            THEN initializeSourceTimers(e1) ELSE e1
      e3 == emit(e2, StatusChange(previousStatus, e2.status))
  IN scheduleFrame(e3)

\* play() that leaves lastFrameTime as it is when it resumes.
playResumingOldFrameTime(e, clock) ==
  IF e.status = "running" THEN e
  ELSE LET previousStatus == e.status
           e1 == [e EXCEPT !.status = "running",
                           !.lastFrameTime = IF previousStatus = "stopped"
                                             THEN clock ELSE @]
           e2 == IF previousStatus = "stopped"
                 THEN initializeSourceTimers(e1) ELSE e1
       IN scheduleFrame(emit(e2, StatusChange(previousStatus, e2.status)))

play(e, clock) ==
  IF e.status = "running" THEN e
  ELSE LET previousStatus == e.status
           e1 == [e EXCEPT !.status = "running", !.lastFrameTime = clock]
           e2 == IF previousStatus = "stopped"
                 THEN initializeSourceTimers(e1) ELSE e1
       IN scheduleFrame(emit(e2, StatusChange(previousStatus, e2.status)))

\* this.listeners.clear()
ClearListeners(e) ==
  IF e.thrown THEN e
  ELSE [e EXCEPT !.listeners = FALSE, !.registry = <<>>]

\* dispose() that leaves the listeners registered.
disposeKeepingListeners(e) == reset(e)

dispose(e) == ClearListeners(reset(e))

\* -------------------------------------------------------------------- tick
\* this.sourceTimers.set(id, value)
SetSourceTimer(e, id, value) ==
  IF e.thrown THEN e
  ELSE [e EXCEPT !.sourceTimers = MapSet(@, id, value)]

RECURSIVE SourceLoop(_, _, _)
\* The source loop that skips no source for its state.
SourceLoopOfAnyState(e, i, deltaMs) ==
  IF i > Len(DevicesOf(e.layout)) \/ e.thrown THEN e
  ELSE LET d == DevicesOf(e.layout)[i]
       IN IF d.type # "source"
          THEN SourceLoop(e, i + 1, deltaMs)
          ELSE LET timer == MapGet(e.sourceTimers, d.id, 0)
                   newTimer == timer + deltaMs * e.timeScale
                   interval == TimeUnit \div d.generationRate
               IN IF newTimer >= interval
                  THEN LET token == createToken(d.id, d, DefaultTokenColor,
                                                e.tokenIdCounter)
                           e1 == [e EXCEPT !.tokenIdCounter = @ + 1,
                                           !.tokens = Append(@, token)]
                       IN SourceLoop(
                            SetSourceTimer(emit(e1, TokenCreated(token)),
                                           d.id, newTimer % interval),
                            i + 1, deltaMs)
                  ELSE SourceLoop(SetSourceTimer(e, d.id, newTimer),
                                  i + 1, deltaMs)

SourceLoop(e, i, deltaMs) ==
  IF i > Len(DevicesOf(e.layout)) \/ e.thrown THEN e
  ELSE LET d == DevicesOf(e.layout)[i]
       IN IF d.type # "source" \/ e.devices[d.id].state # "running"
          THEN SourceLoop(e, i + 1, deltaMs)
          ELSE LET timer == MapGet(e.sourceTimers, d.id, 0)
                   newTimer == timer + deltaMs * e.timeScale
                   interval == TimeUnit \div d.generationRate
               IN IF newTimer >= interval
                  THEN LET token == createToken(d.id, d, DefaultTokenColor,
                                                e.tokenIdCounter)
                           e1 == [e EXCEPT !.tokenIdCounter = @ + 1,
                                           !.tokens = Append(@, token)]
                       IN SourceLoop(
                            SetSourceTimer(emit(e1, TokenCreated(token)),
                                           d.id, newTimer % interval),
                            i + 1, deltaMs)
                  ELSE SourceLoop(SetSourceTimer(e, d.id, newTimer),
                                  i + 1, deltaMs)

processSourceDevices(e, deltaMs) == SourceLoop(e, 1, deltaMs)

\* The loop of updateTokens over the token array it started with; r holds
\* the engine record and the locals tokensToRemove and updatedTokens.
RECURSIVE TokenLoop(_, _, _, _)
TokenLoop(r, toks, i, deltaMs) ==
  IF i > Len(toks) \/ r.e.thrown THEN r
  ELSE
    LET token == toks[i]
        dev == token.currentDeviceId
        layout == r.e.layout
    IN IF ~HasNode(layout, dev)
       THEN TokenLoop([r EXCEPT !.tokensToRemove = Append(@, token)],
                      toks, i + 1, deltaMs)
       ELSE
         LET adv == advanceToken(token, DeviceOf(layout, dev),
                                 r.e.devices[dev].state,
                                 deltaMs, r.e.timeScale)
             advancedToken == adv.token
             nextDeviceId == getNextDeviceId(advancedToken, layout)
         IN IF ~adv.completed
            THEN TokenLoop([r EXCEPT !.updatedTokens = Append(@, advancedToken)],
                           toks, i + 1, deltaMs)
            ELSE IF shouldRemoveToken(advancedToken, layout)
            THEN TokenLoop([r EXCEPT !.tokensToRemove = Append(@, advancedToken)],
                           toks, i + 1, deltaMs)
            ELSE IF nextDeviceId # Null /\ HasNode(layout, nextDeviceId)
            THEN LET transferredToken ==
                       transferToken(advancedToken, nextDeviceId,
                                     DeviceOf(layout, nextDeviceId))
                     e1 == emit(r.e, TokenMoved(transferredToken, dev, nextDeviceId))
                 IN TokenLoop([r EXCEPT !.e = e1,
                                 !.updatedTokens = Append(@, transferredToken)],
                              toks, i + 1, deltaMs)
            ELSE TokenLoop([r EXCEPT !.tokensToRemove = Append(@, advancedToken)],
                           toks, i + 1, deltaMs)

\* updateTokens() that emits no tokenRemoved event.
updateTokensSilently(e, deltaMs) ==
  LET r == TokenLoop([e |-> e, tokensToRemove |-> <<>>, updatedTokens |-> <<>>],
                     e.tokens, 1, deltaMs)
  IN [r.e EXCEPT !.tokens = r.updatedTokens]

\* this.tokens = updatedTokens
SetTokens(e, updatedTokens) ==
  IF e.thrown THEN e ELSE [e EXCEPT !.tokens = updatedTokens]

\* updateTokens() after its loop: the tokenRemoved events, then
\* this.tokens = updatedTokens.
RemoveTokens(r) ==
  SetTokens(EmitRemoved(r.e, r.tokensToRemove, 1), r.updatedTokens)

updateTokens(e, deltaMs) ==
  RemoveTokens(
    TokenLoop([e |-> e, tokensToRemove |-> <<>>, updatedTokens |-> <<>>],
              e.tokens, 1, deltaMs))

\* tick() without the status guard.
tickUnguarded(e, timestamp) ==
  LET deltaMs == timestamp - e.lastFrameTime
      e1 == [e EXCEPT !.lastFrameTime = timestamp,
                      !.elapsedTime = @ + deltaMs * e.timeScale]
      e2 == processSourceDevices(e1, deltaMs)
      e3 == updateTokens(e2, deltaMs)
      e4 == emit(e3, TickEvent(Len(e3.tokens)))
  IN scheduleFrame(e4)

\* this.emit('tick', { deltaTime, elapsedTime, tokenCount })
EmitTick(e) == emit(e, TickEvent(Len(e.tokens)))

\* tick() that emits the tick event before it updates the tokens.
tickEmittingEarly(e, timestamp) ==
  IF e.status # "running" THEN e
  ELSE LET deltaMs == timestamp - e.lastFrameTime
           e1 == [e EXCEPT !.lastFrameTime = timestamp,
                           !.elapsedTime = @ + deltaMs * e.timeScale]
       IN scheduleFrame(
            updateTokens(EmitTick(processSourceDevices(e1, deltaMs)),
                         deltaMs))

tick(e, timestamp) ==
  IF e.status # "running" THEN e
  ELSE LET deltaMs == timestamp - e.lastFrameTime
           e1 == [e EXCEPT !.lastFrameTime = timestamp,
                           !.elapsedTime = @ + deltaMs * e.timeScale]
       IN scheduleFrame(
            EmitTick(updateTokens(processSourceDevices(e1, deltaMs),
                                  deltaMs)))

\* ------------------------------------------------------- device operations
\* setDeviceState() that emits only when the state changes.
setDeviceStateOnChange(e, deviceId, state) ==
  IF HasNode(e.layout, deviceId) /\ e.devices[deviceId].state # state
  THEN LET previousState == e.devices[deviceId].state
           e1 == [e EXCEPT !.devices[deviceId].state = state]
       IN emit(e1, DeviceStateChange(deviceId, previousState, state))
  ELSE e

setDeviceState(e, deviceId, state) ==
  IF HasNode(e.layout, deviceId)
  THEN LET previousState == e.devices[deviceId].state
           e1 == [e EXCEPT !.devices[deviceId].state = state]
       IN emit(e1, DeviceStateChange(deviceId, previousState, state))
  ELSE e

setDeviceFault(e, deviceId, reason) ==
  IF HasNode(e.layout, deviceId)
  THEN LET previousState == e.devices[deviceId].state
           e1 == [e EXCEPT !.devices[deviceId].state = "faulted",
                           !.devices[deviceId].faultReason = reason]
       IN emit(e1, DeviceStateChange(deviceId, previousState, "faulted"))
  ELSE e

\* clearDeviceFault() that restarts the device.
clearDeviceFaultToRunning(e, deviceId) ==
  IF HasNode(e.layout, deviceId) /\ e.devices[deviceId].state = "faulted"
  THEN LET e1 == [e EXCEPT !.devices[deviceId].state = "running",
                           !.devices[deviceId].faultReason = Undefined]
       IN emit(e1, DeviceStateChange(deviceId, "faulted", "running"))
  ELSE e

clearDeviceFault(e, deviceId) ==
  IF HasNode(e.layout, deviceId) /\ e.devices[deviceId].state = "faulted"
  THEN LET e1 == [e EXCEPT !.devices[deviceId].state = "stopped",
                           !.devices[deviceId].faultReason = Undefined]
       IN emit(e1, DeviceStateChange(deviceId, "faulted", "stopped"))
  ELSE e

Min(a, b) == IF a < b THEN a ELSE b
Max(a, b) == IF a > b THEN a ELSE b

setTimeScale(e, scale) ==
  [e EXCEPT !.timeScale = Max(MinTimeScale, Min(MaxTimeScale, scale))]

\* updateLayout() that drops the tokens of the old layout.
updateLayoutDroppingTokens(e, layout) ==
  [e EXCEPT !.layout = layout, !.devices = DeviceObjects(layout),
            !.tokens = <<>>]

\* The layout handed over brings its own device objects.
updateLayout(e, layout) ==
  [e EXCEPT !.layout = layout, !.devices = DeviceObjects(layout)]

\* ------------------------------------------------------------ editor store
DefaultHistoryDepth == 50

\* The state of the store as created.
InitialStore(maxHistoryDepth) ==
  [devices |-> <<>>, connections |-> <<>>, selectedDevice |-> Null,
   undoStack |-> <<>>, redoStack |-> <<>>,
   maxHistoryDepth |-> maxHistoryDepth]

cloneState(s) ==
  [devices |-> s.devices, connections |-> s.connections,
   selectedDevice |-> s.selectedDevice]

HistoryEntry(timestamp, action, state) ==
  [timestamp |-> timestamp, action |-> action, state |-> state]

\* Array.prototype.slice(start): a negative start counts from the end, and
\* -0 is 0.
slice(array, start) ==
  LET from == IF start < 0
              THEN (IF Len(array) + start < 0 THEN 0 ELSE Len(array) + start)
              ELSE (IF start > Len(array) THEN Len(array) ELSE start)
  IN SubSeq(array, from + 1, Len(array))

\* recordHistory() that keeps every entry.
recordHistoryUnlimited(s, action, t) ==
  [s EXCEPT !.undoStack = Append(@, HistoryEntry(t, action, cloneState(s))),
            !.redoStack = <<>>]

recordHistory(s, action, t) ==
  [s EXCEPT !.undoStack = slice(Append(@, HistoryEntry(t, action,
                                                       cloneState(s))),
                                -s.maxHistoryDepth),
            !.redoStack = <<>>]

addDevice(s, device, t) ==
  recordHistory([s EXCEPT !.devices = Append(@, device),
                          !.selectedDevice = device.id],
                "addDevice", t)

removeDevice(s, deviceId, t) ==
  recordHistory([s EXCEPT !.devices = SelectSeq(@, LAMBDA d : d.id # deviceId),
                          !.connections =
                            SelectSeq(@, LAMBDA c :
                                           /\ c.fromDeviceId # deviceId
                                           /\ c.toDeviceId # deviceId),
                          !.selectedDevice =
                            IF @ = deviceId THEN Null ELSE @],
                "removeDevice", t)

\* { ...device, ...updates }
Spread(device, updates) ==
  [k \in DOMAIN device \cup DOMAIN updates |->
     IF k \in DOMAIN updates THEN updates[k] ELSE device[k]]

updateDevice(s, deviceId, updates, t) ==
  recordHistory([s EXCEPT !.devices =
                            [i \in 1..Len(s.devices) |->
                               IF s.devices[i].id = deviceId
                               THEN Spread(s.devices[i], updates)
                               ELSE s.devices[i]]],
                "updateDevice", t)

selectDevice(s, deviceId) == [s EXCEPT !.selectedDevice = deviceId]

undo(s, t) ==
  IF Len(s.undoStack) = 0 THEN s
  ELSE LET currentState == cloneState(s)
           lastUndoEntry == s.undoStack[Len(s.undoStack)]
           previousState == lastUndoEntry.state
       IN [s EXCEPT !.redoStack = Append(@, HistoryEntry(t, "undo",
                                                         currentState)),
                    !.undoStack = SubSeq(@, 1, Len(@) - 1),
                    !.devices = previousState.devices,
                    !.connections = previousState.connections,
                    !.selectedDevice = previousState.selectedDevice]

redo(s, t) ==
  IF Len(s.redoStack) = 0 THEN s
  ELSE LET currentState == cloneState(s)
           lastRedoEntry == s.redoStack[Len(s.redoStack)]
           nextState == lastRedoEntry.state
       IN [s EXCEPT !.undoStack = Append(@, HistoryEntry(t, "redo",
                                                         currentState)),
                    !.redoStack = SubSeq(@, 1, Len(@) - 1),
                    !.devices = nextState.devices,
                    !.connections = nextState.connections,
                    !.selectedDevice = nextState.selectedDevice]

clearHistory(s) == [s EXCEPT !.undoStack = <<>>, !.redoStack = <<>>]

\* --------------------------------------------------------------- variables
VARIABLES
  layout,            \* SimulationEngine.layout (and graph, built from it)
  status,            \* SimulationEngine.status
  tokens,            \* SimulationEngine.tokens
  elapsedTime,       \* SimulationEngine.elapsedTime
  lastFrameTime,     \* SimulationEngine.lastFrameTime
  animationFrameId,  \* SimulationEngine.animationFrameId (NoFrame is null)
  sourceTimers,      \* SimulationEngine.sourceTimers
  devices,           \* state and faultReason of the layout's device objects
  timeScale,         \* SimulationEngine.config.timeScale
  listeners,         \* whether the host's listener is registered
  registry,          \* the kinds of the further listeners registered
  tokenIdCounter,    \* the token module's tokenIdCounter
  pending,           \* host scheduler: frame callbacks requested, not yet
                     \* fired or cancelled
  now,               \* host clock (performance.now()), ms
  events,            \* events emitted by the last operation, in order
  lastCall,          \* the last operation: its name, the device id it
                     \* was called with, the status and token count before
                     \* it, the call its listener made
  observedStatus,    \* observer: newStatus of the last statusChange
  genCount,          \* observer: tokenCreated events per source since the
                     \* last statusChange to stopped
  steady,            \* observer: the source has been running ever since
                     \* simulated time was 0
  ledger,            \* observer: tokenCreated events minus tokenRemoved
                     \* events so far, the ids of the tokenRemoved events
                     \* since the last reset, and whether one of them came
                     \* twice
  maxTokenId,        \* observer: the highest token id of the tokenCreated
                     \* events so far
  delivery,          \* observer: what each listener of the registry was
                     \* invoked with by the last operation, the errors it
                     \* logged and whether an exception left it
  graphLayout,       \* the layout given to the graph utilities
  graphCall,         \* the last call of a graph utility on the graph built
                     \* from graphLayout: its name, its arguments, its
                     \* result
  tokenCall,         \* the last call of advanceToken: its arguments and
                     \* what it returned
  store,             \* the editor store (useEditorStore): devices,
                     \* connections, selectedDevice, undoStack, redoStack,
                     \* maxHistoryDepth
  storeCall,         \* the last call on the editor store, the call before
                     \* it, the number of calls, how far the calls are in
                     \* the chain recorded action (1), undo (2), redo (3),
                     \* and the history state before and after the last
                     \* recorded action
  engineB            \* a second SimulationEngine of the process: its
                     \* fields and the frame callbacks it has requested;
                     \* the token module's tokenIdCounter is the one
                     \* counter of the process

engineVars == <<layout, status, tokens, elapsedTime, lastFrameTime, animationFrameId,
                sourceTimers, devices, timeScale, listeners, registry,
                tokenIdCounter>>

vars == <<layout, status, tokens, elapsedTime, lastFrameTime, animationFrameId,
          sourceTimers, devices, timeScale, listeners, registry,
          tokenIdCounter, pending, now, events, lastCall, observedStatus,
          genCount, steady, maxTokenId, ledger, delivery, graphLayout,
          graphCall, tokenCall, store, storeCall, engineB>>

graphVars == <<graphLayout, graphCall>>

\* The variables of the utilities that are called without an engine.
utilVars == <<graphLayout, graphCall, tokenCall, store, storeCall>>

\* ------------------------------------------------------------------ inputs
DeviceStates == {"running", "stopped", "faulted"}
FaultReasons == {"Motor jam"}
DeviceIdInputs == DeviceIds \cup {UnknownId}
ConveyorIdInputs == {"conveyor-1", UnknownId}
\* Time scales given to the constructor (config.timeScale), in tenths.
ConfigScales == {DefaultTimeScale, 40}
\* The same with a timeScale of 0, which the constructor takes as it is.
AnyConfigScales == ConfigScales \cup {0}
ScaleInputs == {0, 20, 1000}
ListenerKinds == {"records", "throws"}
TickEventTypes == {"tokenCreated", "tokenMoved", "tokenRemoved", "tick"}
Hooks == {NoHook} \cup [on : TickEventTypes, call : {"pause", "reset"}]

\* --------------------------------------------------------------- observers
\* No listener of the registry has been invoked yet.
NoDelivery(reg) ==
  [received |-> [i \in 1..Len(reg) |-> <<>>], errors |-> 0, thrown |-> FALSE]

RECURSIVE ObserveStatus(_, _)
ObserveStatus(obs, log) ==
  IF log = <<>> THEN obs
  ELSE ObserveStatus(IF Head(log).type = "statusChange" THEN Head(log).new
                     ELSE obs, Tail(log))

RECURSIVE ObserveGen(_, _)
ObserveGen(cnt, log) ==
  IF log = <<>> THEN cnt
  ELSE LET ev == Head(log)
           c1 == IF ev.type = "statusChange" /\ ev.new = "stopped"
                 THEN [s \in SourceIds |-> 0]
                 ELSE IF ev.type = "tokenCreated" /\ ev.dev \in SourceIds
                 THEN [cnt EXCEPT ![ev.dev] = @ + 1]
                 ELSE cnt
       IN ObserveGen(c1, Tail(log))

RECURSIVE ObserveMaxId(_, _)
ObserveMaxId(m, log) ==
  IF log = <<>> THEN m
  ELSE ObserveMaxId(IF Head(log).type = "tokenCreated" /\ Head(log).token > m
                    THEN Head(log).token ELSE m, Tail(log))

\* Nothing created, nothing removed.
NoLedger == [balance |-> 0, removed |-> {}, twice |-> FALSE]

\* The ledger after the events of a log: a reset ends with its statusChange
\* to stopped, and the ids removed are counted anew from there.
RECURSIVE ObserveLedger(_, _)
ObserveLedger(led, log) ==
  IF log = <<>> THEN led
  ELSE LET ev == Head(log)
           l1 == IF ev.type = "tokenCreated"
                 THEN [led EXCEPT !.balance = @ + 1]
                 ELSE IF ev.type = "tokenRemoved"
                 THEN [led EXCEPT !.balance = @ - 1,
                                  !.removed = @ \cup {ev.token},
                                  !.twice = @ \/ ev.token \in led.removed]
                 ELSE IF ev.type = "statusChange" /\ ev.new = "stopped"
                 THEN [led EXCEPT !.removed = {}]
                 ELSE led
       IN ObserveLedger(l1, Tail(log))

\* -------------------------------------------------------------------- init
\* The operation takes no device id.
NoArg == "-"

\* No graph utility has been called.
NoCall == [op |-> "none", from |-> NoArg, to |-> NoArg,
           result |-> Value("undefined", <<>>)]

\* A layout without devices.
EmptyLayout == [devices |-> <<>>, connections |-> <<>>]

\* No call of advanceToken yet.
NoTokenCall == [op |-> "none"]

\* No call on the editor store yet.
NoStoreCall ==
  [op |-> "none", arg |-> NoArg, previous |-> "none", n |-> 0, chain |-> 0,
   before |-> cloneState(InitialStore(DefaultHistoryDepth)),
   after |-> cloneState(InitialStore(DefaultHistoryDepth))]

\* A second engine, constructed with the same layout and configuration.
SecondEngine(scale) ==
  [layout |-> TestLayout, status |-> "stopped", tokens |-> <<>>,
   elapsedTime |-> 0, lastFrameTime |-> 0, animationFrameId |-> NoFrame,
   sourceTimers |-> EmptyTimers, devices |-> DeviceObjects(TestLayout),
   timeScale |-> scale, listeners |-> FALSE, registry |-> <<>>,
   pending |-> {}]

\* The engine constructed with the test layout and a config whose
\* timeScale is one of scales.
ConstructedEngine(scales) ==
  /\ layout = TestLayout
  /\ status = "stopped"
  /\ tokens = <<>>
  /\ elapsedTime = 0
  /\ lastFrameTime = 0
  /\ animationFrameId = NoFrame
  /\ sourceTimers = EmptyTimers
  /\ devices = DeviceObjects(TestLayout)
  /\ timeScale \in scales
  /\ listeners = FALSE
  /\ registry = <<>>
  /\ tokenIdCounter = 0
  /\ pending = {}
  /\ now = 0
  /\ events = <<>>
  /\ lastCall = [op |-> "new", arg |-> NoArg, prev |-> "stopped", n |-> 0,
                 hook |-> "none"]
  /\ observedStatus = "stopped"
  /\ genCount = [s \in SourceIds |-> 0]
  /\ steady = [s \in SourceIds |-> TRUE]
  /\ maxTokenId = 0
  /\ ledger = NoLedger
  /\ delivery = NoDelivery(<<>>)
  /\ engineB = SecondEngine(timeScale)

\* The same, with no graph utility in use.
Constructed(scales) ==
  /\ ConstructedEngine(scales)
  /\ graphLayout = EmptyLayout
  /\ graphCall = NoCall
  /\ tokenCall = NoTokenCall
  /\ store = InitialStore(DefaultHistoryDepth)
  /\ storeCall = NoStoreCall

Init == Constructed(ConfigScales)

\* The engine record at the start of an operation.
Eng ==
  [layout |-> layout, status |-> status, tokens |-> tokens, elapsedTime |-> elapsedTime,
   lastFrameTime |-> lastFrameTime, animationFrameId |-> animationFrameId,
   sourceTimers |-> sourceTimers, devices |-> devices,
   timeScale |-> timeScale, listeners |-> listeners,
   registry |-> registry,
   tokenIdCounter |-> tokenIdCounter, pending |-> pending,
   events |-> <<>>, hook |-> NoHook, hookFired |-> "none", arg |-> NoArg,
   received |-> NoDelivery(registry).received, errors |-> 0,
   thrown |-> FALSE]

\* The state after operation op returned engine record e.
Return(op, e) ==
  /\ layout' = e.layout
  /\ status' = e.status
  /\ tokens' = e.tokens
  /\ elapsedTime' = e.elapsedTime
  /\ lastFrameTime' = e.lastFrameTime
  /\ animationFrameId' = e.animationFrameId
  /\ sourceTimers' = e.sourceTimers
  /\ devices' = e.devices
  /\ timeScale' = e.timeScale
  /\ listeners' = e.listeners
  /\ registry' = e.registry
  /\ maxTokenId' = ObserveMaxId(maxTokenId, e.events)
  /\ ledger' = ObserveLedger(ledger, e.events)
  /\ delivery' = [received |-> e.received, errors |-> e.errors,
                  thrown |-> e.thrown]
  /\ tokenIdCounter' = e.tokenIdCounter
  /\ pending' = e.pending
  /\ events' = e.events
  /\ lastCall' = [op |-> op, arg |-> e.arg, prev |-> status,
                  n |-> Len(tokens), hook |-> e.hookFired]
  /\ observedStatus' = ObserveStatus(observedStatus, e.events)
  /\ genCount' = ObserveGen(genCount, e.events)
  /\ steady' = [s \in SourceIds |->
                  /\ (e.elapsedTime = 0 \/ steady[s])
                  /\ s \in DOMAIN e.devices
                  /\ e.devices[s].state = "running"]
  /\ UNCHANGED <<now, engineB, utilVars>>

\* ------------------------------------------------------------ graph inputs
\* Layouts for the graph utilities: the devices a, b, c, or b and a only,
\* in this order, with up to MaxConnections connections between a, b and c
\* in any order; with the devices b and a, a connection from or to c has a
\* missing endpoint.
GraphIds == {"a", "b", "c"}

GraphDevices ==
  { << [id |-> "a"], [id |-> "b"], [id |-> "c"] >>,
    << [id |-> "b"], [id |-> "a"] >> }

GraphConnections ==
  UNION { [1..n -> [fromDeviceId : GraphIds, toDeviceId : GraphIds]] :
            n \in 0..MaxConnections }

GraphLayouts == [devices : GraphDevices, connections : GraphConnections]

\* The ids the utilities are called with.
GraphIdInputs == GraphIds \cup {UnknownId}

\* The devices of the store tests, the ids and the updates given to the
\* store.
StoreDevices ==
  {[id |-> "test-1", type |-> "conveyor", speed |-> 10],
   [id |-> "test-2", type |-> "source", speed |-> 0]}
StoreIdInputs == {"test-1", "test-2"}
StoreUpdates == {[speed |-> 25]}
StoreSelections == {Null, "test-1"}

\* A conveyor whose entry point is its exit point.
FlatConveyor ==
  [id |-> "conveyor-0", type |-> "conveyor", x |-> 100, y |-> 100,
   width |-> 0, height |-> 50, state |-> "running",
   generationRate |-> 0, speed |-> 100, direction |-> "right"]

\* The devices, the progress of the token, the seconds (in ms) and the time
\* scales (in tenths) advanceToken is called with.
TokenDevices ==
  {LayoutDevices[1], LayoutDevices[2], NewLayoutDevices[1], FlatConveyor}
TokenProgressInputs ==
  {0, ProgressDen \div 4, ProgressDen \div 2, ProgressDen}
DeltaMsInputs == {0, FrameQuantum, 1000, 2000, 3000}
TokenScaleInputs == {MinTimeScale, 5, DefaultTimeScale, 20}

\* ----------------------------------------------------------------- actions
Play ==
  /\ Cardinality(pending) < MaxPending
  /\ Return("play", play(Eng, now))

Pause == Return("pause", pause(Eng))

Reset == Return("reset", reset(Eng))

Dispose == Return("dispose", dispose(Eng))

\* The host fires the frame callback h; the callback calls tick(timestamp).
FrameFire ==
  \E h \in pending :
    \E hook \in (IF listeners THEN Hooks ELSE {NoHook}) :
      LET e0 == [Eng EXCEPT !.pending = @ \ {h}, !.hook = hook]
      IN Return("tick", tick(e0, now))

\* The same with a timestamp that the host chooses: the clock reading, or
\* a reading one FrameQuantum older, as long as the simulated time stays at
\* or above 0.
FrameFireAt ==
  \E h \in pending :
    \E timestamp \in { t \in {now - FrameQuantum, now} : t >= 0 } :
      /\ elapsedTime + (timestamp - lastFrameTime) * timeScale >= 0
      /\ LET e0 == [Eng EXCEPT !.pending = @ \ {h}]
         IN Return("tick", tick(e0, timestamp))

\* The engine record at the start of an operation called with a device id.
EngOn(id) == [Eng EXCEPT !.arg = id]

SetDeviceState ==
  \E id \in DeviceIdInputs, s \in DeviceStates :
    Return("setDeviceState", setDeviceState(EngOn(id), id, s))

SetDeviceFault ==
  \E id \in DeviceIdInputs, r \in FaultReasons :
    Return("setDeviceFault", setDeviceFault(EngOn(id), id, r))

\* The device operations on the conveyor of the layout or on an unknown id.
SetConveyorState ==
  \E id \in ConveyorIdInputs, s \in DeviceStates :
    Return("setDeviceState", setDeviceState(EngOn(id), id, s))

SetConveyorFault ==
  \E id \in ConveyorIdInputs, r \in FaultReasons :
    Return("setDeviceFault", setDeviceFault(EngOn(id), id, r))

ClearConveyorFault ==
  \E id \in ConveyorIdInputs :
    Return("clearDeviceFault", clearDeviceFault(EngOn(id), id))

ClearDeviceFault ==
  \E id \in DeviceIdInputs :
    Return("clearDeviceFault", clearDeviceFault(EngOn(id), id))

SetTimeScale ==
  \E scale \in ScaleInputs :
    Return("setTimeScale", setTimeScale(Eng, scale))

On ==
  /\ ~listeners
  /\ Return("on", [Eng EXCEPT !.listeners = TRUE])

Off ==
  /\ listeners
  /\ Return("off", [Eng EXCEPT !.listeners = FALSE])

UpdateLayout ==
  \E newLayout \in LayoutNames :
    Return("updateLayout", updateLayout(Eng, newLayout))

\* on(type, listener) for every event type, with a listener of a kind.
AddListener ==
  /\ Len(registry) < MaxListeners
  /\ \E kind \in ListenerKinds :
       Return("on", [Eng EXCEPT !.registry = Append(@, kind)])

\* Time passes on the host clock.
Wait ==
  /\ now + FrameQuantum <= MaxNow
  /\ now' = now + FrameQuantum
  /\ events' = <<>>
  /\ lastCall' = [op |-> "wait", arg |-> NoArg, prev |-> status,
                  n |-> Len(tokens), hook |-> "none"]
  /\ delivery' = NoDelivery(registry)
  /\ UNCHANGED <<engineVars, pending, observedStatus, genCount, steady,
                 maxTokenId, ledger, engineB, utilVars>>

\* The engine's control surface, the frame callbacks and the host's listener.
Next ==
  \/ Play
  \/ Pause
  \/ Reset
  \/ Dispose
  \/ FrameFire
  \/ On
  \/ Off
  \/ Wait

Spec == Init /\ [][Next]_vars

\* The device operations on every device of the layout (and on an unknown
\* id), with reset().
NextDevices ==
  \/ SetDeviceState
  \/ SetDeviceFault
  \/ ClearDeviceFault
  \/ Reset

SpecDevices == Init /\ [][NextDevices]_vars

\* The control surface and the frame callbacks under a changing time scale.
NextTime ==
  \/ Play
  \/ Pause
  \/ Reset
  \/ FrameFire
  \/ SetTimeScale
  \/ Wait

SpecTime == Constructed(AnyConfigScales) /\ [][NextTime]_vars

\* The control surface, the frame callbacks and a device operation, with
\* listeners that throw and listeners that do not.
NextListeners ==
  \/ Play
  \/ Pause
  \/ Reset
  \/ FrameFire
  \/ SetConveyorFault
  \/ AddListener
  \/ Wait

SpecListeners == Init /\ [][NextListeners]_vars

\* The control surface with frame callbacks of any timestamp.
NextFrames ==
  \/ Play
  \/ Pause
  \/ Reset
  \/ FrameFireAt
  \/ Wait

SpecFrames == Init /\ [][NextFrames]_vars

\* The control surface and the frame callbacks with layout updates.
NextLayout ==
  \/ Play
  \/ Pause
  \/ Reset
  \/ FrameFire
  \/ UpdateLayout
  \/ Wait

SpecLayout == Init /\ [][NextLayout]_vars

\* The frame callbacks of a running engine with setDeviceState on every
\* device of the layout.
NextFlow ==
  \/ Play
  \/ FrameFire
  \/ SetDeviceState
  \/ Wait

SpecFlow == Init /\ [][NextFlow]_vars

\* The control surface and the frame callbacks with dispose() and with
\* listeners registered before and after it.
NextDispose ==
  \/ Play
  \/ Pause
  \/ FrameFire
  \/ Dispose
  \/ AddListener
  \/ Wait

SpecDispose == Init /\ [][NextDispose]_vars

\* The frame callbacks of an engine that is played and paused, with the
\* device operations on the conveyor.
NextConveyor ==
  \/ Play
  \/ Pause
  \/ FrameFire
  \/ SetConveyorState
  \/ SetConveyorFault
  \/ ClearConveyorFault
  \/ Wait

SpecConveyor == Init /\ [][NextConveyor]_vars

\* setTimeScale(2).
DoubleTimeScale ==
  Return("setTimeScale", setTimeScale(Eng, 2 * DefaultTimeScale))

\* updateLayout() with the layout of the layout-update test.
UpdateLayoutToNew == Return("updateLayout", updateLayout(Eng, "new"))

\* Every operation that could touch the simulated time: the control surface
\* with dispose(), the frame callbacks, setTimeScale, a device operation and
\* layout updates.
NextElapsed ==
  \/ Play
  \/ Pause
  \/ Reset
  \/ Dispose
  \/ FrameFire
  \/ DoubleTimeScale
  \/ SetConveyorFault
  \/ UpdateLayoutToNew
  \/ Wait

SpecElapsed == Constructed({DefaultTimeScale}) /\ [][NextElapsed]_vars

\* An engine that is set up while stopped, played once and then ticked by
\* the host at every frame interval: the clock passes only while a frame is
\* due, and a frame fires only after the clock has passed.
Idle == status = "stopped" /\ Wait

UpdateLayoutWhileStopped == status = "stopped" /\ UpdateLayout

WaitForFrame == status = "running" /\ now = lastFrameTime /\ Wait

FrameFireInTime == now > lastFrameTime /\ FrameFire

NextLive ==
  \/ Idle
  \/ UpdateLayoutWhileStopped
  \/ Play
  \/ WaitForFrame
  \/ FrameFireInTime

\* A frame callback is requested and the clock has passed the last frame.
FrameDue == pending # {} /\ now > lastFrameTime

\* The host keeps the clock and the frame callbacks going: the clock passes
\* while the engine waits for its frame, and a frame that is due does not
\* stay due.  FrameFireInTime is the only step that ends FrameDue, so the
\* last conjunct is the weak fairness of FrameFireInTime, stated on the
\* states.
SpecLive ==
  /\ Constructed({MaxTimeScale})
  /\ [][NextLive]_vars
  /\ WF_vars(WaitForFrame)
  /\ []<>(~FrameDue)

\* ------------------------------------------------------- the second engine
\* The record of engine B at the start of one of its operations; generateTokenId
\* reads the counter of the token module.
EngB ==
  [layout |-> engineB.layout, status |-> engineB.status,
   tokens |-> engineB.tokens, elapsedTime |-> engineB.elapsedTime,
   lastFrameTime |-> engineB.lastFrameTime,
   animationFrameId |-> engineB.animationFrameId,
   sourceTimers |-> engineB.sourceTimers, devices |-> engineB.devices,
   timeScale |-> engineB.timeScale, listeners |-> engineB.listeners,
   registry |-> engineB.registry,
   tokenIdCounter |-> tokenIdCounter, pending |-> engineB.pending,
   events |-> <<>>, hook |-> NoHook, hookFired |-> "none", arg |-> "B",
   received |-> <<>>, errors |-> 0, thrown |-> FALSE]

\* The state after operation op of engine B returned engine record e: the
\* fields of B and the counter of the token module.
ReturnB(op, e) ==
  /\ engineB' = [f \in DOMAIN engineB |-> e[f]]
  /\ tokenIdCounter' = e.tokenIdCounter
  /\ events' = <<>>
  /\ lastCall' = [op |-> op, arg |-> e.arg, prev |-> engineB.status,
                  n |-> Len(engineB.tokens), hook |-> "none"]
  /\ delivery' = NoDelivery(registry)
  /\ UNCHANGED <<layout, status, tokens, elapsedTime, lastFrameTime,
                 animationFrameId, sourceTimers, devices, timeScale,
                 listeners, registry, pending, now, observedStatus,
                 genCount, steady, maxTokenId, ledger, utilVars>>

PlayB ==
  /\ Cardinality(engineB.pending) < MaxPending
  /\ ReturnB("play", play(EngB, now))

ResetB == ReturnB("reset", reset(EngB))

\* The host fires the frame callback h of engine B.
FrameFireB ==
  \E h \in engineB.pending :
    ReturnB("tick", tick([EngB EXCEPT !.pending = @ \ {h}], now))

\* Two engines of one process: each is played, ticked by its frame
\* callbacks and reset, in any order.
NextTwo ==
  \/ Play
  \/ Reset
  \/ FrameFire
  \/ PlayB
  \/ ResetB
  \/ FrameFireB
  \/ Wait

SpecTwo == Constructed({MaxTimeScale}) /\ [][NextTwo]_vars

\* ----------------------------------------------------------- graph actions
\* A call of a graph utility on the graph built from graphLayout.
GraphReturn(op, fromDeviceId, toDeviceId, result) ==
  /\ graphCall' = [op |-> op, from |-> fromDeviceId, to |-> toDeviceId,
                   result |-> result]
  /\ UNCHANGED <<engineVars, pending, now, events, lastCall, observedStatus,
                 genCount, steady, maxTokenId, ledger, engineB,
                 delivery, graphLayout,
                 tokenCall, store, storeCall>>

BuildConnectivityGraph ==
  GraphReturn("buildConnectivityGraph", NoArg, NoArg,
              Value("graph", buildConnectivityGraph(graphLayout)))

GetNode ==
  \E id \in GraphIdInputs :
    GraphReturn("getNode", id, NoArg,
                getNode(buildConnectivityGraph(graphLayout), id))

GetConnectedOutputs ==
  \E id \in GraphIdInputs :
    GraphReturn("getConnectedOutputs", id, NoArg,
                Value("list",
                      GraphOutputs(buildConnectivityGraph(graphLayout), id)))

GetConnectedInputs ==
  \E id \in GraphIdInputs :
    GraphReturn("getConnectedInputs", id, NoArg,
                Value("list",
                      GraphInputs(buildConnectivityGraph(graphLayout), id)))

GetPath ==
  \E fromDeviceId \in GraphIdInputs, toDeviceId \in GraphIdInputs :
    GraphReturn("getPath", fromDeviceId, toDeviceId,
                findPath(buildConnectivityGraph(graphLayout),
                         fromDeviceId, toDeviceId))

HasCycle ==
  GraphReturn("hasCycle", NoArg, NoArg,
              Value("boolean", hasCycle(buildConnectivityGraph(graphLayout))))

TopologicalSort ==
  GraphReturn("topologicalSort", NoArg, NoArg,
              topologicalSort(buildConnectivityGraph(graphLayout)))

\* ----------------------------------------------------------- token actions
\* advanceToken(token, device, deltaTimeSeconds, timeScale) on a token of the
\* device that is progress of the way along it.
AdvanceToken ==
  \E d \in TokenDevices, progress \in TokenProgressInputs,
     state \in DeviceStates, deltaMs \in DeltaMsInputs,
     scale \in TokenScaleInputs :
    LET token == [createToken(d.id, d, DefaultTokenColor, 0)
                    EXCEPT !.progress = progress,
                           !.position = getPositionOnSegment(d, progress)]
    IN /\ tokenCall' = [op |-> "advanceToken", token |-> token, device |-> d,
                        state |-> state, deltaMs |-> deltaMs,
                        timeScale |-> scale,
                        result |-> advanceToken(token, d, state, deltaMs,
                                                scale)]
       /\ UNCHANGED <<engineVars, pending, now, events, lastCall,
                      observedStatus, genCount, steady, maxTokenId, ledger, engineB,
                 delivery,
                      graphVars, store, storeCall>>

NextToken == AdvanceToken

SpecToken == Constructed({DefaultTimeScale}) /\ [][NextToken]_vars

\* ----------------------------------------------------------- store actions
\* The actions that record history.
RecordedActions == {"addDevice", "removeDevice", "updateDevice"}

\* A call on the editor store that leaves it as s.
StoreReturn(op, arg, s) ==
  /\ storeCall.n < MaxStoreCalls
  /\ store' = s
  /\ storeCall' = [op |-> op, arg |-> arg, previous |-> storeCall.op,
                   n |-> storeCall.n + 1,
                   chain |-> IF op \in RecordedActions THEN 1
                             ELSE IF op = "undo" /\ storeCall.chain = 1 THEN 2
                             ELSE IF op = "redo" /\ storeCall.chain = 2 THEN 3
                             ELSE 0,
                   before |-> IF op \in RecordedActions
                              THEN cloneState(store) ELSE storeCall.before,
                   after |-> IF op \in RecordedActions
                             THEN cloneState(s) ELSE storeCall.after]
  /\ UNCHANGED <<engineVars, pending, now, events, lastCall, observedStatus,
                 genCount, steady, maxTokenId, ledger, engineB,
                 delivery, graphVars,
                 tokenCall>>

AddDevice ==
  \E device \in StoreDevices :
    /\ Len(store.devices) < MaxStoreDevices
    /\ StoreReturn("addDevice", device.id, addDevice(store, device, now))

RemoveDevice ==
  \E id \in StoreIdInputs :
    StoreReturn("removeDevice", id, removeDevice(store, id, now))

UpdateDevice ==
  \E id \in StoreIdInputs, updates \in StoreUpdates :
    StoreReturn("updateDevice", id, updateDevice(store, id, updates, now))

SelectDevice ==
  \E id \in StoreSelections :
    StoreReturn("selectDevice", id, selectDevice(store, id))

Undo == StoreReturn("undo", NoArg, undo(store, now))

Redo == StoreReturn("redo", NoArg, redo(store, now))

ClearHistory == StoreReturn("clearHistory", NoArg, clearHistory(store))

\* The store with maxHistoryDepth set before its first action.
InitStore ==
  /\ ConstructedEngine({DefaultTimeScale})
  /\ graphLayout = EmptyLayout
  /\ graphCall = NoCall
  /\ tokenCall = NoTokenCall
  /\ \E depth \in 1..MaxHistoryDepth : store = InitialStore(depth)
  /\ storeCall = NoStoreCall

NextStore ==
  \/ AddDevice
  \/ RemoveDevice
  \/ UpdateDevice
  \/ SelectDevice
  \/ Undo
  \/ Redo
  \/ ClearHistory

SpecStore == InitStore /\ [][NextStore]_vars

\* The graph utilities on the graph of any of the layouts.
InitGraph ==
  /\ ConstructedEngine({DefaultTimeScale})
  /\ graphLayout \in GraphLayouts
  /\ graphCall = NoCall
  /\ tokenCall = NoTokenCall
  /\ store = InitialStore(DefaultHistoryDepth)
  /\ storeCall = NoStoreCall

NextGraph ==
  \/ BuildConnectivityGraph
  \/ GetNode
  \/ GetConnectedOutputs
  \/ GetConnectedInputs
  \/ GetPath
  \/ HasCycle
  \/ TopologicalSort

SpecGraph == InitGraph /\ [][NextGraph]_vars

\* ================================================================== claims
StatusChanges(log) == SelectSeq(log, LAMBDA ev : ev.type = "statusChange")

\* C1: the status starts as stopped and changes only along stopped->running
\* and paused->running (play), running->paused (pause) and any->stopped
\* (reset, dispose); the pause() or reset() a listener calls during a tick
\* follows the same edges, and a tick whose listener calls nothing leaves
\* the status as it was.  In particular stopped->paused never occurs.
C1_StatusEdges ==
  /\ status = "stopped"
  /\ [][ /\ status' # status =>
              \/ /\ lastCall'.op = "play"
                 /\ status \in {"stopped", "paused"}
                 /\ status' = "running"
              \/ /\ lastCall'.op = "pause"
                 /\ status = "running"
                 /\ status' = "paused"
              \/ /\ lastCall'.op \in {"reset", "dispose"}
                 /\ status' = "stopped"
              \/ /\ lastCall'.op = "tick"
                 /\ lastCall'.hook = "pause"
                 /\ status = "running"
                 /\ status' = "paused"
              \/ /\ lastCall'.op = "tick"
                 /\ lastCall'.hook = "reset"
                 /\ status' = "stopped"
         /\ (lastCall'.op = "tick" /\ lastCall'.hook = "none")
              => status' = status
         /\ ~(status = "stopped" /\ status' = "paused") ]_vars

\* C1 witness: pause() has been called on a stopped engine, which stayed
\* stopped.
C1_Witness ==
  lastCall.op = "pause" /\ lastCall.prev = "stopped" /\ status = "stopped"

\* C2: timer-remainder law: a source that has stayed running, with
\* generation rate R, has created floor(T * R) tokens once the simulated
\* time T exceeds 1/R, however T was split into frame deltas.
C2_TimerRemainderLaw ==
  \A s \in SourcesOf(layout) :
    LET R == DeviceOf(layout, s).generationRate
    IN (status # "stopped" /\ steady[s] /\ elapsedTime * R > TimeUnit)
         => genCount[s] = (elapsedTime * R) \div TimeUnit

\* C3: when a listener has called pause() or reset() during a tick, no frame
\* callback is pending when the tick returns.
C3_NoRescheduleAfterStop ==
  (lastCall.op = "tick" /\ lastCall.hook \in {"pause", "reset"})
    => pending = {}

\* C4: every device has a defined faultReason if and only if its state is
\* faulted.
C4_FaultReasonIffFaulted ==
  \A id \in DOMAIN devices :
    (devices[id].faultReason # Undefined) <=> (devices[id].state = "faulted")

\* C5: reset() with n live tokens emits exactly n tokenRemoved events and
\* leaves no token, elapsedTime 0, no source timer entry, no pending frame
\* callback and the status stopped.
C5_ResetClearsEverything ==
  lastCall.op = "reset" =>
    /\ CountType(events, "tokenRemoved") = lastCall.n
    /\ tokens = <<>>
    /\ elapsedTime = 0
    /\ DOMAIN sourceTimers = {}
    /\ pending = {}
    /\ status = "stopped"

\* C6: play() from stopped sets the timer of every source of the layout to
\* 0; pause() and the play() that resumes from paused each leave the source
\* timers, the token list and elapsedTime as they were.
C6_PlayTimers ==
  [][ /\ (lastCall'.op = "play" /\ status = "stopped")
           => sourceTimers' = [s \in SourcesOf(layout) |-> 0]
      /\ (\/ lastCall'.op = "pause"
          \/ (lastCall'.op = "play" /\ status = "paused"))
           => UNCHANGED <<sourceTimers, tokens, elapsedTime>> ]_vars

\* C6 witness: the engine has resumed from paused with a live token and a
\* source timer that is not 0.
C6_Witness ==
  /\ lastCall.op = "play"
  /\ lastCall.prev = "paused"
  /\ tokens # <<>>
  /\ \E s \in DOMAIN sourceTimers : sourceTimers[s] > 0

\* C7: play() while running and pause() while stopped or paused change no
\* engine state and no pending frame, and emit no event.
C7_SilentNoOps ==
  [][ (\/ (lastCall'.op = "play" /\ status = "running")
       \/ (lastCall'.op = "pause" /\ status # "running"))
        => /\ UNCHANGED <<engineVars, pending>>
           /\ events' = <<>> ]_vars

\* C7 witness: play() has been called on a running engine.
C7_Witness ==
  lastCall.op = "play" /\ lastCall.prev = "running" /\ status = "running"

\* C8: every play() on an engine that is not running, every pause() on a
\* running engine and every reset() emits exactly one statusChange, from the
\* status before the call to the status after it; and the observer that
\* applies newStatus of each statusChange holds the engine's status.
C8_StatusChangeEvents ==
  /\ [][ (\/ (lastCall'.op = "play" /\ status # "running")
          \/ (lastCall'.op = "pause" /\ status = "running")
          \/ lastCall'.op = "reset")
           => /\ Len(StatusChanges(events')) = 1
              /\ StatusChanges(events')[1].prev = status
              /\ StatusChanges(events')[1].new = status' ]_vars
  /\ [](observedStatus = status)

\* C8 witness: reset() has been called on a running engine with live tokens.
C8_Witness ==
  lastCall.op = "reset" /\ lastCall.prev = "running" /\ lastCall.n > 0

\* C9: a frame callback that fires while the status is not running leaves
\* the engine as it was, emits no event and schedules no frame.
C9_GuardedTick ==
  [][ (lastCall'.op = "tick" /\ status # "running")
        => /\ UNCHANGED engineVars
           /\ events' = <<>>
           /\ pending' \subseteq pending ]_vars

\* C9 witness: a frame callback has fired on an engine that was not running.
C9_Witness ==
  lastCall.op = "tick" /\ lastCall.prev # "running"

\* C10: at most one frame callback is scheduled and not yet fired or
\* cancelled.
C10_OneFrameInFlight == Cardinality(pending) <= 1

\* What an operation leaves behind, the listeners' own records apart.
Outcome(e) ==
  <<e.layout, e.status, e.tokens, e.elapsedTime, e.lastFrameTime,
    e.animationFrameId, e.sourceTimers, e.devices, e.timeScale, e.listeners,
    e.tokenIdCounter, e.pending, e.events>>

\* The engine with every throwing listener replaced by one that returns.
Quiet(e) == [e EXCEPT !.registry = [i \in DOMAIN @ |-> "records"]]

Throwers(reg) == Cardinality({ i \in 1..Len(reg) : reg[i] = "throws" })

\* C11: whichever listeners throw, every registered listener is invoked with
\* every event the operation emits, in order; every throw is logged and none
\* leaves the operation; and play, pause, reset, a tick and setDeviceFault
\* leave the engine, the pending frames and the emitted events exactly as
\* they would with listeners that do not throw.
C11_ListenerIsolation ==
  [][ LET after == <<layout', status', tokens', elapsedTime', lastFrameTime',
                     animationFrameId', sourceTimers', devices', timeScale',
                     listeners', tokenIdCounter', pending', events'>>
          op == lastCall'.op
      IN /\ op \in {"play", "pause", "reset", "tick", "setDeviceFault"}
              => /\ \A i \in 1..Len(registry) :
                      delivery'.received[i] = events'
                 /\ ~delivery'.thrown
                 /\ delivery'.errors = Len(events') * Throwers(registry)
         /\ op = "play" => after = Outcome(play(Quiet(Eng), now))
         /\ op = "pause" => after = Outcome(pause(Quiet(Eng)))
         /\ op = "reset" => after = Outcome(reset(Quiet(Eng)))
         /\ op = "tick" =>
              \E h \in pending :
                after = Outcome(tick([Quiet(Eng) EXCEPT !.pending = @ \ {h}],
                                     now))
         /\ op = "setDeviceFault" =>
              \E id \in ConveyorIdInputs, r \in FaultReasons :
                after = Outcome(setDeviceFault(Quiet(Eng), id, r)) ]_vars

\* C11 witness: a tick has emitted at least two events with a throwing
\* listener registered before one that returns, and the latter was invoked
\* with each of them.
C11_Witness ==
  /\ lastCall.op = "tick"
  /\ registry = <<"throws", "records">>
  /\ Len(events) >= 2
  /\ delivery.received[2] = events
  /\ delivery.errors = Len(events)

\* C12: the time scale of the engine lies in [0.1, 10], whatever config the
\* engine was constructed with and whatever setTimeScale was called with.
C12_TimeScaleInRange ==
  MinTimeScale <= timeScale /\ timeScale <= MaxTimeScale

\* C13: the progress of every live token lies in [0, 1], whatever the
\* timestamps of the frames and the time scale.
C13_ProgressInUnitInterval ==
  \A i \in 1..Len(tokens) :
    0 <= tokens[i].progress /\ tokens[i].progress <= ProgressDen

\* The tokenRemoved events of a log that carry the token id.
RemovedEvents(log, id) ==
  SelectSeq(log, LAMBDA ev : ev.type = "tokenRemoved" /\ ev.token = id)

\* C14: after an executed tick every live token is on a node of the graph,
\* and every token that was on a device absent from the graph is no longer
\* live and has had exactly one tokenRemoved event.
C14_OrphansRemoved ==
  [][ (lastCall'.op = "tick" /\ status = "running")
        => /\ \A i \in 1..Len(tokens') :
                HasNode(layout', tokens'[i].currentDeviceId)
           /\ \A i \in 1..Len(tokens) :
                ~HasNode(layout, tokens[i].currentDeviceId)
                  => /\ \A j \in 1..Len(tokens') :
                          tokens'[j].id # tokens[i].id
                     /\ Len(RemovedEvents(events', tokens[i].id)) = 1 ]_vars

\* C14 witness: a tick has removed a token whose device is not in the graph
\* and has kept another token that is on a node of the graph.
C14_Witness ==
  /\ lastCall.op = "tick"
  /\ \E i \in 1..Len(events) :
       /\ events[i].type = "tokenRemoved"
       /\ ~HasNode(layout, events[i].dev)
  /\ tokens # <<>>

\* C15: updateLayout replaces the layout (with it the graph and the device
\* objects) and leaves everything else of the engine and the pending frame
\* as it was, and emits no event.
C15_UpdateLayoutOnly ==
  [][ lastCall'.op = "updateLayout"
        => /\ \E newLayout \in LayoutNames :
                /\ layout' = newLayout
                /\ devices' = DeviceObjects(newLayout)
           /\ UNCHANGED <<tokens, status, elapsedTime, lastFrameTime,
                          animationFrameId, sourceTimers, timeScale,
                          listeners, registry, tokenIdCounter, pending>>
           /\ events' = <<>> ]_vars

\* C15 witness: updateLayout has been called on a running engine with a
\* pending frame and a live token whose device the new layout does not have.
C15_Witness ==
  /\ lastCall.op = "updateLayout"
  /\ status = "running"
  /\ pending # {}
  /\ \E i \in 1..Len(tokens) : ~HasNode(layout, tokens[i].currentDeviceId)

\* The tokenMoved and tokenRemoved events of a log that carry the token id.
MovedOrRemoved(log, id) ==
  SelectSeq(log, LAMBDA ev : /\ ev.type \in {"tokenMoved", "tokenRemoved"}
                             /\ ev.token = id)

\* C16: a tick keeps every token whose device is in the graph and stopped
\* or faulted, with its progress and device, and emits no tokenMoved or
\* tokenRemoved event for it; and a token changes its progress or device
\* only in a tick that finds its device running.
C16_HeldOnStoppedDevice ==
  [][ /\ (lastCall'.op = "tick" /\ status = "running")
           => \A i \in 1..Len(tokens) :
                LET dev == tokens[i].currentDeviceId
                IN (HasNode(layout, dev) /\ devices[dev].state # "running")
                     => /\ \E j \in 1..Len(tokens') :
                             /\ tokens'[j].id = tokens[i].id
                             /\ tokens'[j].progress = tokens[i].progress
                             /\ tokens'[j].currentDeviceId = dev
                        /\ MovedOrRemoved(events', tokens[i].id) = <<>>
      /\ \A i \in 1..Len(tokens), j \in 1..Len(tokens') :
           (/\ tokens'[j].id = tokens[i].id
            /\ \/ tokens'[j].progress # tokens[i].progress
               \/ tokens'[j].currentDeviceId # tokens[i].currentDeviceId)
             => /\ lastCall'.op = "tick"
                /\ devices[tokens[i].currentDeviceId].state = "running" ]_vars

\* C16 witness: a tick has run over a token that is part-way through a
\* faulted device, and the token is still there.
C16_Witness ==
  /\ lastCall.op = "tick"
  /\ lastCall.prev = "running"
  /\ \E i \in 1..Len(tokens) :
       /\ devices[tokens[i].currentDeviceId].state = "faulted"
       /\ 0 < tokens[i].progress
       /\ tokens[i].progress < ProgressDen

C18_TokenIdsNeverReused ==
  [][ \A i \in 1..Len(events') :
        events'[i].type = "tokenCreated"
          => /\ events'[i].token > maxTokenId
             /\ \A j \in 1..(i - 1) :
                  events'[j].type = "tokenCreated"
                    => events'[j].token < events'[i].token ]_vars

\* The tokens a tick works on: the live tokens and, at progress 0, the
\* tokens it creates, each as id, device and progress.
CreatedIn(log) == SelectSeq(log, LAMBDA ev : ev.type = "tokenCreated")

TickTokens(log) ==
  [i \in 1..Len(tokens) |->
     [id |-> tokens[i].id, currentDeviceId |-> tokens[i].currentDeviceId,
      progress |-> tokens[i].progress]]
  \o [k \in 1..Len(CreatedIn(log)) |->
       [id |-> CreatedIn(log)[k].token,
        currentDeviceId |-> CreatedIn(log)[k].dev, progress |-> 0]]

\* The token is on a node of the graph and the frame takes it to the end of
\* its device.
Completes(t) ==
  /\ HasNode(layout, t.currentDeviceId)
  /\ t.progress
       + calculateProgressDelta(DeviceOf(layout, t.currentDeviceId),
                                devices[t.currentDeviceId].state,
                                now - lastFrameTime, timeScale)
       >= ProgressDen

\* The connections of the layout that leave the device for a device of the
\* layout, and the target of the first of them.
OutgoingOf(l, id) ==
  SelectSeq(Layouts[l].connections,
            LAMBDA c : c.fromDeviceId = id /\ c.toDeviceId \in IdsOf(l))

FirstDeclaredOutput(l, id) == OutgoingOf(l, id)[1].toDeviceId

MovedEvents(log, id) ==
  SelectSeq(log, LAMBDA ev : ev.type = "tokenMoved" /\ ev.token = id)

\* C19: in an executed tick, a token that completes its device and stays
\* live is, after the tick, on the first-declared output of that device
\* with its id and color, progress 0 and the position of that device's
\* entry point, and the tick has emitted exactly one tokenMoved for it, from
\* the old device to that output; every other token that stays live stays on
\* its device with no tokenMoved.
C19_TransferToFirstOutput ==
  [][ (lastCall'.op = "tick" /\ status = "running")
        => \A i \in 1..Len(TickTokens(events')) :
             LET t == TickTokens(events')[i]
                 from == t.currentDeviceId
             IN \A j \in 1..Len(tokens') :
                  tokens'[j].id = t.id
                    => IF Completes(t)
                       THEN LET to == FirstDeclaredOutput(layout, from)
                            IN /\ tokens'[j].currentDeviceId = to
                               /\ tokens'[j].progress = 0
                               /\ tokens'[j].color = DefaultTokenColor
                               /\ tokens'[j].position =
                                    PointAt(getDeviceEntryPoint(
                                              DeviceOf(layout, to)))
                               /\ Len(MovedEvents(events', t.id)) = 1
                               /\ MovedEvents(events', t.id)[1].dev = from
                               /\ MovedEvents(events', t.id)[1].to = to
                       ELSE /\ tokens'[j].currentDeviceId = from
                            /\ MovedEvents(events', t.id) = <<>> ]_vars

\* C19 witness: a tick has moved a token from a device with two different
\* outputs to the first-declared one.
C19_Witness ==
  /\ lastCall.op = "tick"
  /\ \E i \in 1..Len(events) :
       /\ events[i].type = "tokenMoved"
       /\ Len(getConnectedOutputs(layout, events[i].dev)) = 2
       /\ events[i].to = FirstDeclaredOutput(layout, events[i].dev)
       /\ \E j \in 1..Len(tokens) :
            /\ tokens[j].id = events[i].token
            /\ tokens[j].currentDeviceId = events[i].to
            /\ tokens[j].progress = 0

\* C20: an executed tick removes a token, with one tokenRemoved event, if
\* and only if the token's device is not in the graph, or the token completes
\* its device in this tick and the device has no output or is a sink.
C20_RemovedOnlyAtTheEnd ==
  [][ (lastCall'.op = "tick" /\ status = "running")
        => \A i \in 1..Len(TickTokens(events')) :
             LET t == TickTokens(events')[i]
                 dev == t.currentDeviceId
                 removed == \A j \in 1..Len(tokens') : tokens'[j].id # t.id
             IN /\ removed <=>
                     \/ ~HasNode(layout, dev)
                     \/ /\ Completes(t)
                        /\ \/ OutgoingOf(layout, dev) = <<>>
                           \/ DeviceOf(layout, dev).type = "sink"
                /\ Len(RemovedEvents(events', t.id))
                     = (IF removed THEN 1 ELSE 0) ]_vars

\* C20 witness: a tick has removed a token that completed a sink which has
\* an outgoing connection, and has kept a token that is part-way through
\* its device.
C20_Witness ==
  /\ lastCall.op = "tick"
  /\ \E i \in 1..Len(events) :
       /\ events[i].type = "tokenRemoved"
       /\ HasNode(layout, events[i].dev)
       /\ DeviceOf(layout, events[i].dev).type = "sink"
       /\ OutgoingOf(layout, events[i].dev) # <<>>
  /\ \E j \in 1..Len(tokens) :
       0 < tokens[j].progress /\ tokens[j].progress < ProgressDen

\* C21: scenario 1: in the test layout at timeScale 1, once play() and the
\* ticks after it have brought the simulated time to exactly 1 second, two
\* tokens have been created and each of them is on the conveyor with a
\* progress strictly between 0 and 1.
C21_ScenarioOne ==
  ( /\ layout = TestLayout
    /\ timeScale = DefaultTimeScale
    /\ status = "running"
    /\ lastCall.op = "tick"
    /\ lastCall.hook = "none"
    /\ steady["source-1"]
    /\ elapsedTime = TimeUnit )
    => /\ genCount["source-1"] = 2
       /\ Len(tokens) = 2
       /\ \A i \in 1..Len(tokens) :
            /\ tokens[i].currentDeviceId = "conveyor-1"
            /\ 0 < tokens[i].progress
            /\ tokens[i].progress < ProgressDen

\* C22: dispose() emits what reset() emits, one tokenRemoved for each live
\* token in order and then one statusChange from the status before to
\* stopped, and every listener registered before it is invoked with each of
\* these events; it leaves the status stopped, no token, simulated time 0,
\* no frame requested and no listener registered, so that an operation after
\* it invokes no listener until one is registered again.
C22_DisposeResetsAndClears ==
  [][ /\ lastCall'.op = "dispose"
        => /\ Len(events') = Len(tokens) + 1
           /\ \A i \in 1..Len(tokens) :
                events'[i] = TokenRemoved(tokens[i])
           /\ events'[Len(tokens) + 1] = StatusChange(status, "stopped")
           /\ Len(delivery'.received) = Len(registry)
           /\ \A i \in 1..Len(registry) : delivery'.received[i] = events'
           /\ status' = "stopped"
           /\ tokens' = <<>>
           /\ elapsedTime' = 0
           /\ animationFrameId' = NoFrame
           /\ registry' = <<>>
           /\ ~listeners'
      /\ (registry = <<>> /\ lastCall'.op # "wait")
           => delivery'.received = <<>> ]_vars

\* C22 witness: dispose() of an engine with a live token and two listeners
\* has invoked the second listener with the tokenRemoved and the
\* statusChange, and has left no listener registered.
C22_Witness ==
  /\ lastCall.op = "dispose"
  /\ lastCall.n >= 1
  /\ Len(delivery.received) = 2
  /\ Len(events) = lastCall.n + 1
  /\ delivery.received[2] = events
  /\ events[1].type = "tokenRemoved"
  /\ registry = <<>>
  /\ tokens = <<>>

\* C23: setDeviceState and setDeviceFault on a device of the graph emit
\* exactly one deviceStateChange, for that device, from the state it had
\* before the call to the state it has after it (faulted for setDeviceFault),
\* and change no other device; on an id that is not in the graph they change
\* no device and emit nothing.  setDeviceState, setDeviceFault and
\* clearDeviceFault leave the engine status and the token list as they were.
C23_DeviceOperations ==
  [][ LET op == lastCall'.op
          id == lastCall'.arg
      IN /\ op \in {"setDeviceState", "setDeviceFault", "clearDeviceFault"}
              => status' = status /\ tokens' = tokens
         /\ op \in {"setDeviceState", "setDeviceFault"}
              => IF HasNode(layout, id)
                 THEN /\ Len(events') = 1
                      /\ events'[1].type = "deviceStateChange"
                      /\ events'[1].dev = id
                      /\ events'[1].prev = devices[id].state
                      /\ events'[1].new = devices'[id].state
                      /\ op = "setDeviceFault"
                           => devices'[id].state = "faulted"
                      /\ \A other \in DOMAIN devices \ {id} :
                           devices'[other] = devices[other]
                 ELSE events' = <<>> /\ devices' = devices ]_vars

\* C23 witness: setDeviceState on the conveyor of a running engine with a
\* live token has set the state the conveyor already had, and has emitted
\* the deviceStateChange.
C23_Witness ==
  /\ lastCall.op = "setDeviceState"
  /\ lastCall.arg = "conveyor-1"
  /\ status = "running"
  /\ Len(tokens) >= 1
  /\ Len(events) = 1
  /\ events[1].prev = events[1].new
  /\ events[1].new = devices["conveyor-1"].state

\* The graph built from the layout given to the graph utilities.
BuiltGraph == buildConnectivityGraph(graphLayout)

\* The edges of the layout: the connections between two of its devices.
LayoutIds == { graphLayout.devices[i].id : i \in 1..Len(graphLayout.devices) }

LayoutEdges ==
  { <<graphLayout.connections[i].fromDeviceId,
      graphLayout.connections[i].toDeviceId>> :
      i \in { j \in 1..Len(graphLayout.connections) :
                /\ graphLayout.connections[j].fromDeviceId \in LayoutIds
                /\ graphLayout.connections[j].toDeviceId \in LayoutIds } }

\* The walks along the edges of the layout, by their number of edges: every
\* device of the layout reached from a device in n edges or fewer.
RECURSIVE ReachedWithin(_, _)
ReachedWithin(from, n) ==
  IF n = 0 THEN {from}
  ELSE LET near == ReachedWithin(from, n - 1)
       IN near \cup { e[2] : e \in { f \in LayoutEdges : f[1] \in near } }

\* The layout has a cycle: a device reaches itself along one edge or more.
Cyclic ==
  \E e \in LayoutEdges : e[1] \in ReachedWithin(e[2], Cardinality(LayoutIds))

\* C24: for the graph of every layout, with self-loops, duplicate and
\* dangling connections and disconnected devices, topologicalSort returns
\* null if and only if hasCycle returns true.
C24_SortNullIffCycle ==
  /\ graphCall.op = "topologicalSort"
       => (graphCall.result.kind = "null" <=> hasCycle(BuiltGraph))
  /\ graphCall.op = "hasCycle"
       => (graphCall.result.value
             <=> topologicalSort(BuiltGraph).kind = "null")

\* C24 witness: topologicalSort has returned null for a graph whose only
\* cycle is a self-loop, built from a layout with a dangling connection and a
\* device without connections.
C24_Witness ==
  /\ graphCall.op = "topologicalSort"
  /\ graphCall.result.kind = "null"
  /\ Len(graphLayout.devices) = 2
  /\ LayoutEdges = {<<"a", "a">>}
  /\ \E i \in 1..Len(graphLayout.connections) :
       graphLayout.connections[i].toDeviceId = "c"
  /\ hasCycle(BuiltGraph)
  /\ Cyclic

\* The place of a device id in a list that holds it.
IndexIn(list, id) == CHOOSE i \in 1..Len(list) : list[i] = id

\* C25: a list returned by topologicalSort holds every device id of the
\* layout exactly once, and holds every device before each device that one
\* of the layout's connections leads to from it.
C25_SortIsTopological ==
  (graphCall.op = "topologicalSort" /\ graphCall.result.kind = "list")
    => LET sorted == graphCall.result.value
       IN /\ Len(sorted) = Cardinality(LayoutIds)
          /\ { sorted[i] : i \in 1..Len(sorted) } = LayoutIds
          /\ \A e \in LayoutEdges :
               IndexIn(sorted, e[1]) < IndexIn(sorted, e[2])

\* C25 witness: topologicalSort has returned a list for a layout with a chain
\* of two connections that runs against the order of the devices.
C25_Witness ==
  /\ graphCall.op = "topologicalSort"
  /\ graphCall.result = Value("list", <<"c", "b", "a">>)
  /\ LayoutEdges = {<<"c", "b">>, <<"b", "a">>}
  /\ Len(graphLayout.connections) = 3

\* C26: getPath(from, to) with from # to returns null exactly when no walk
\* along the connections of the layout leads from `from` to `to`; otherwise
\* it returns a list that starts with `from`, ends with `to`, follows a
\* connection of the layout at every step and has as few steps as any such
\* walk.  getPath(x, x) returns the list of x alone.
C26_GetPathIsShortest ==
  graphCall.op = "getPath"
    => LET from == graphCall.from
           to == graphCall.to
           path == graphCall.result.value
       IN IF from = to THEN graphCall.result = Value("list", <<from>>)
          ELSE IF to \notin ReachedWithin(from, Cardinality(LayoutIds))
          THEN graphCall.result.kind = "null"
          ELSE /\ graphCall.result.kind = "list"
               /\ Len(path) >= 2
               /\ path[1] = from
               /\ path[Len(path)] = to
               /\ \A i \in 1..(Len(path) - 1) :
                    <<path[i], path[i + 1]>> \in LayoutEdges
               /\ to \notin ReachedWithin(from, Len(path) - 2)

\* C26 witness: getPath has returned the path of one connection in a layout
\* that declares a path of two connections between the same devices first.
C26_Witness ==
  /\ graphCall.op = "getPath"
  /\ graphCall.result = Value("list", <<"a", "c">>)
  /\ Len(graphLayout.connections) = 3
  /\ graphLayout.connections[1] = [fromDeviceId |-> "a", toDeviceId |-> "b"]
  /\ graphLayout.connections[2] = [fromDeviceId |-> "b", toDeviceId |-> "c"]
  /\ graphLayout.connections[3] = [fromDeviceId |-> "a", toDeviceId |-> "c"]

\* The first connection of the layout from a to b.
FirstDeclaration(a, b) ==
  CHOOSE i \in 1..Len(graphLayout.connections) :
    /\ graphLayout.connections[i] = [fromDeviceId |-> a, toDeviceId |-> b]
    /\ \A j \in 1..(i - 1) :
         graphLayout.connections[j] # [fromDeviceId |-> a, toDeviceId |-> b]

\* The graph g has one node per device id of the layout; b is an output of a
\* if and only if a is an input of b, if and only if the layout declares a
\* connection from a to b between two of its devices; every neighbour is
\* listed once, in the order of the first declarations; a connection with a
\* missing endpoint adds nothing.
BuiltAsDeclared(g) ==
  /\ DOMAIN g.nodes = LayoutIds
  /\ Len(g.order) = Cardinality(LayoutIds)
  /\ { g.order[i] : i \in 1..Len(g.order) } = LayoutIds
  /\ \A a \in LayoutIds :
       LET outputs == g.nodes[a].outputs
           inputs == g.nodes[a].inputs
       IN /\ { outputs[i] : i \in 1..Len(outputs) }
               = { b \in GraphIds : <<a, b>> \in LayoutEdges }
          /\ { inputs[i] : i \in 1..Len(inputs) }
               = { b \in GraphIds : <<b, a>> \in LayoutEdges }
          /\ \A i, j \in 1..Len(outputs) :
               i < j => FirstDeclaration(a, outputs[i])
                          < FirstDeclaration(a, outputs[j])
          /\ \A i, j \in 1..Len(inputs) :
               i < j => FirstDeclaration(inputs[i], a)
                          < FirstDeclaration(inputs[j], a)
  /\ \A a, b \in LayoutIds :
       Includes(g.nodes[a].outputs, b) <=> Includes(g.nodes[b].inputs, a)

\* C27 as stated: the graph is built as declared, and getNode,
\* getConnectedOutputs and getConnectedInputs of an id that is not a device
\* of the layout return an empty list.
C27_LookupsGiveEmptyList ==
  /\ graphCall.op = "buildConnectivityGraph"
       => BuiltAsDeclared(graphCall.result.value)
  /\ ( /\ graphCall.op \in {"getNode", "getConnectedOutputs",
                            "getConnectedInputs"}
       /\ graphCall.from \notin LayoutIds )
       => graphCall.result = Value("list", <<>>)

\* C27, amended: the graph is built as declared; getConnectedOutputs and
\* getConnectedInputs of an id that is not a device of the layout return an
\* empty list, and getNode of such an id returns undefined.
C27_GraphOfLayout ==
  /\ graphCall.op = "buildConnectivityGraph"
       => BuiltAsDeclared(graphCall.result.value)
  /\ ( /\ graphCall.op \in {"getConnectedOutputs", "getConnectedInputs"}
       /\ graphCall.from \notin LayoutIds )
       => graphCall.result = Value("list", <<>>)
  /\ graphCall.op = "getNode"
       => (graphCall.result.kind = "undefined"
             <=> graphCall.from \notin LayoutIds)

\* C27 witness: the graph has been built from a layout that declares a -> b
\* twice, a -> c with c missing, and b -> a; a has the output b once.
C27_Witness ==
  /\ graphCall.op = "buildConnectivityGraph"
  /\ Len(graphLayout.devices) = 2
  /\ LayoutEdges = {<<"a", "b">>}
  /\ Len(graphLayout.connections) = 3
  /\ graphLayout.connections[1] = graphLayout.connections[3]
  /\ graphLayout.connections[2] = [fromDeviceId |-> "a", toDeviceId |-> "c"]
  /\ graphCall.result.value.nodes["a"].outputs = <<"b">>
  /\ graphCall.result.value.nodes["b"].inputs = <<"a">>

\* The device of the last advanceToken call moves its tokens: it is running
\* and its segment has a length.
TokenCallMoves ==
  /\ tokenCall.state = "running"
  /\ SegmentLength(tokenCall.device) # 0

\* speed * dt * timeScale of the last advanceToken call, in pixels times
\* TimeUnit, times LenLcm.
TokenCallTravel ==
  (IF tokenCall.device.type = "conveyor" THEN tokenCall.device.speed
   ELSE DefaultSpeed)
    * tokenCall.deltaMs * tokenCall.timeScale * LenLcm

\* C28: advanceToken returns completed = true exactly when token.progress +
\* progressDelta >= 1, where progressDelta = speed*dt*timeScale/length for a
\* running device with non-zero length and 0 otherwise; the returned
\* progress is min(token.progress + progressDelta, 1); id, device and colour
\* of the returned token are those of the token given.  (Progress is a
\* numerator over ProgressDen; the equations are multiplied by the length.)
C28_AdvanceToken ==
  tokenCall.op = "advanceToken"
    => LET before == tokenCall.token.progress
           after == tokenCall.result.token.progress
           length == SegmentLength(tokenCall.device)
           reaches ==
             IF TokenCallMoves
             THEN before * length + TokenCallTravel >= ProgressDen * length
             ELSE before >= ProgressDen
       IN /\ tokenCall.result.completed <=> reaches
          /\ reaches => after = ProgressDen
          /\ (~reaches /\ TokenCallMoves)
               => (after - before) * length = TokenCallTravel
          /\ (~reaches /\ ~TokenCallMoves) => after = before
          /\ tokenCall.result.token.id = tokenCall.token.id
          /\ tokenCall.result.token.currentDeviceId
               = tokenCall.token.currentDeviceId
          /\ tokenCall.result.token.color = tokenCall.token.color

\* C28 witness: scenario 2, a token at progress 0 on the running conveyor of
\* speed 100 and width 200, advanced by 2 seconds at time scale 1, comes
\* back completed with progress 1.
C28_Witness ==
  /\ tokenCall.op = "advanceToken"
  /\ tokenCall.device = LayoutDevices[2]
  /\ tokenCall.state = "running"
  /\ tokenCall.token.progress = 0
  /\ tokenCall.deltaMs = 2000
  /\ tokenCall.timeScale = DefaultTimeScale
  /\ tokenCall.result.completed
  /\ tokenCall.result.token.progress = ProgressDen

\* C29: in the editor store, undo() right after a recorded action
\* (addDevice, removeDevice, updateDevice) leaves devices, connections and
\* selection as they were just before that action, and a redo() right after
\* that undo() leaves them as the action left them.
C29_UndoRedoRestore ==
  /\ (storeCall.op = "undo" /\ storeCall.chain = 2)
       => cloneState(store) = storeCall.before
  /\ (storeCall.op = "redo" /\ storeCall.chain = 3)
       => cloneState(store) = storeCall.after

\* C30: in the editor store, with maxHistoryDepth fixed, the undo stack never
\* holds more than maxHistoryDepth entries, and every addDevice, removeDevice
\* and updateDevice leaves the redo stack empty.
C30_HistoryDepth ==
  /\ Len(store.undoStack) <= store.maxHistoryDepth
  /\ storeCall.op \in RecordedActions => store.redoStack = <<>>

\* C30 witness: with maxHistoryDepth 2, four actions have been recorded, the
\* last of them after an undo(); the undo stack holds 2 entries and the redo
\* stack none.
C30_Witness ==
  /\ storeCall.op \in RecordedActions
  /\ storeCall.previous = "undo"
  /\ storeCall.n = 5
  /\ store.maxHistoryDepth = 2
  /\ Len(store.undoStack) = 2
  /\ store.redoStack = <<>>
  /\ \A i \in 1..2 : store.undoStack[i].action \in RecordedActions

\* The tokenCreated events of a log for tokens at the device.
CreatedAt(log, id) ==
  SelectSeq(log, LAMBDA ev : ev.type = "tokenCreated" /\ ev.dev = id)

\* C31: during a tick, a source that is not running creates no token and
\* its timer entry is left as it is; a running source creates at most one
\* token, and creates one exactly when its timer plus deltaTime * timeScale
\* reaches or exceeds 1 / generationRate.
C31_SourcePerTick ==
  [][ (lastCall'.op = "tick" /\ status = "running")
        => \A s \in SourcesOf(layout) :
             LET created == Len(CreatedAt(events', s))
                 newTimer == MapGet(sourceTimers, s, 0)
                               + (now - lastFrameTime) * timeScale
             IN IF devices[s].state # "running"
                THEN /\ created = 0
                     /\ (s \in DOMAIN sourceTimers')
                          <=> (s \in DOMAIN sourceTimers)
                     /\ s \in DOMAIN sourceTimers
                          => sourceTimers'[s] = sourceTimers[s]
                ELSE /\ created <= 1
                     /\ created = 1
                          <=> newTimer * DeviceOf(layout, s).generationRate
                                >= TimeUnit ]_vars

\* C31 witness: a tick has passed over the stopped source with time on its
\* timer, after simulated time has advanced, without creating a token.
C31_Witness ==
  /\ lastCall.op = "tick"
  /\ lastCall.prev = "running"
  /\ devices["source-1"].state = "stopped"
  /\ sourceTimers["source-1"] > 0
  /\ elapsedTime > sourceTimers["source-1"]
  /\ CreatedAt(events, "source-1") = <<>>

\* C32: every executed tick emits exactly one tick event, after all
\* tokenCreated, tokenMoved and tokenRemoved events of that tick; its
\* tokenCount is the number of live tokens after the tick's removals and
\* transfers; and all tokenCreated events of a tick precede all its
\* tokenMoved and tokenRemoved events.
C32_TickEventLast ==
  (lastCall.op = "tick" /\ lastCall.prev = "running")
    => /\ CountType(events, "tick") = 1
       /\ \A i \in 1..Len(events) :
            /\ events[i].type = "tick"
                 => /\ events[i].count = Len(tokens)
                    /\ \A j \in 1..Len(events) :
                         events[j].type \in {"tokenCreated", "tokenMoved",
                                             "tokenRemoved"} => j < i
            /\ events[i].type = "tokenCreated"
                 => \A j \in 1..Len(events) :
                      events[j].type \in {"tokenMoved", "tokenRemoved"}
                        => i < j

\* C32 witness: a tick has created a token, moved a token and removed a
\* token, and has left tokens alive.
C32_Witness ==
  /\ lastCall.op = "tick"
  /\ lastCall.prev = "running"
  /\ CountType(events, "tokenCreated") = 1
  /\ CountType(events, "tokenMoved") >= 1
  /\ CountType(events, "tokenRemoved") >= 1
  /\ Len(tokens) >= 2
  /\ events[Len(events)] = TickEvent(Len(tokens))

\* C33: elapsedTime changes only in an executed tick, where it grows by
\* deltaTime times the time scale in force at that tick, and in reset() and
\* dispose(), where it becomes 0; every other operation leaves it as it is;
\* and the time between a pause() and the following play() adds nothing:
\* play() takes the clock reading as the time the next tick counts from.
C33_ElapsedTime ==
  [][ /\ (lastCall'.op = "tick" /\ status = "running")
           => elapsedTime' = elapsedTime + (now - lastFrameTime) * timeScale
      /\ (lastCall'.op = "tick" /\ status # "running")
           => elapsedTime' = elapsedTime
      /\ lastCall'.op \in {"reset", "dispose"} => elapsedTime' = 0
      /\ lastCall'.op \notin {"tick", "reset", "dispose"}
           => elapsedTime' = elapsedTime
      /\ (lastCall'.op = "play" /\ status = "paused")
           => lastFrameTime' = now ]_vars

\* C33 witness: a tick has run at the default time scale, and the simulated
\* time is two frame intervals behind the clock: the engine has been
\* stopped or paused for that long.
C33_Witness ==
  /\ lastCall.op = "tick"
  /\ lastCall.prev = "running"
  /\ timeScale = DefaultTimeScale
  /\ elapsedTime > 0
  /\ elapsedTime = (now - 2 * FrameQuantum) * DefaultTimeScale
  /\ layout = TestLayout

\* C34: token conservation: after every public call and every tick, the
\* tokenCreated events emitted so far minus the tokenRemoved events emitted
\* so far are as many as the live tokens, and no token id has come in two
\* tokenRemoved events between two resets.
C34_TokenConservation ==
  /\ ledger.balance = Len(tokens)
  /\ ~ledger.twice

\* C35: after every play(), pause(), reset() and tick, with no public call
\* made from inside a listener, a frame callback is pending if and only if
\* the status is running (and it is the one the engine holds the handle of).
C35_FramePendingIffRunning ==
  lastCall.op \in {"play", "pause", "reset", "tick"}
    => /\ (pending # {}) <=> (status = "running")
       /\ (animationFrameId # NoFrame) <=> (status = "running")
       /\ pending \subseteq {animationFrameId}

\* C35 witness: pause() has returned on an engine that had run a tick, and
\* no frame callback is pending.
C35_Witness ==
  /\ lastCall.op = "pause"
  /\ lastCall.prev = "running"
  /\ status = "paused"
  /\ elapsedTime > 0
  /\ pending = {}

\* C36: whenever the status is stopped (between operations), the token
\* list is empty, elapsedTime is 0 and there is no source timer entry, also
\* when listeners have called reset() while a tick was executing.
C36_StoppedIsClean ==
  status = "stopped"
    => /\ tokens = <<>>
       /\ elapsedTime = 0
       /\ sourceTimers = EmptyTimers

\* The token with the id is in the token list.
Live(id) == \E i \in 1..Len(tokens) : tokens[i].id = id

\* No layout has more devices on a chain of first outputs than the test
\* layout has devices.
LongestChain == Len(LayoutDevices)

DistinctIds(toks) ==
  \A i, j \in 1..Len(toks) : toks[i].id = toks[j].id => i = j

\* C38: with two engines in one process, whatever the order of their ticks
\* and resets, no two tokens that are live at the same time in one engine
\* have the same id.
C38_LiveIdsDistinct == DistinctIds(tokens) /\ DistinctIds(engineB.tokens)

\* What an observer that held state for the device makes of the events of
\* a log: newState of the last deviceStateChange event of the device.
RECURSIVE ApplyStateChanges(_, _, _)
ApplyStateChanges(state, log, id) ==
  IF log = <<>> THEN state
  ELSE ApplyStateChanges(
         IF Head(log).type = "deviceStateChange" /\ Head(log).dev = id
         THEN Head(log).new ELSE state,
         Tail(log), id)

\* C39: every change of a device's state is reported by a deviceStateChange
\* event: an observer that holds the states of the devices and applies
\* newState of each deviceStateChange event still holds them after each of
\* setDeviceState, setDeviceFault, clearDeviceFault, reset and tick.
C39_StateChangesReported ==
  [][ lastCall'.op \in {"setDeviceState", "setDeviceFault",
                        "clearDeviceFault", "reset", "tick"}
        => \A id \in DOMAIN devices :
             devices'[id].state
               = ApplyStateChanges(devices[id].state, events', id) ]_vars

====
